---- MODULE Spec2Model ----
(***************************************************************************)
(* Retrieval-and-ranking pipeline of the flickora backend: the diversity   *)
(* selection of the RAG services, the synchronous chat orchestrators       *)
(* (ChatService.chat, GlobalChatService.chat behind chat_message) and the  *)
(* streaming orchestrators (chat_stream behind chat_message_stream).       *)
(***************************************************************************)
EXTENDS Integers, Sequences, FiniteSets, TLC

(***************************************************************************)
(* Bounds of the model.                                                    *)
(***************************************************************************)
\* number of distinct movies (items) in the catalogue
NumMovies == 3
\* longest candidate list handed to the diversity selection
MaxCandidates == 4
\* largest k passed to _ensure_diversity
MaxK == 3
\* largest max_per_movie passed to _ensure_diversity
MaxPerMovieArg == 3
\* most sections the vector search ranks for one chat query
MaxStore == 3
\* longest referenced_movies list of a conversation at the start of a request
MaxReferenced == 2
\* most chunks read from the language-model stream in one request
MaxChunks == 3
\* most sections the vector search ranks for one streaming query
MaxStreamStore == 2
\* longest referenced_movies list of a conversation at the start of a streaming request
MaxStreamReferenced == 1
\* most documents in the embeddings collection of one retrieval call
MaxDocs == 3
\* number of movies owning documents of that collection
NumStoreMovies == 2
\* largest k passed to a retrieval call
MaxRetrK == 2
\* number of threads that construct _ModelSingleton in a fresh process
NumThreads == 2
\* most generate_embedding calls made on one service object
MaxCacheCalls == 103
\* number of chat requests made on one conversation
MaxRequests == 3
\* most messages in the conversation a digest is taken of
MaxHistory == 6
\* most direct write calls made on the embeddings collection
MaxStoreOps == 3
\* number of migration runs at work at the same time
NumMigrations == 2
\* most generate_embedding calls one thread makes
MaxThreadCalls == 2
\* number of users and of conversations
NumUsers == 2
NumConversations == 3

MovieIds == 1..NumMovies

(***************************************************************************)
(* Program constants.                                                      *)
(***************************************************************************)
\* the per-movie cap written into the inline loops and the search_optimized call
InlineMaxPerMovie == 2
\* k of the global chat's rag.search_with_scores call
GlobalK == 10
\* results[:8]: sources and context of the global chat
GlobalSources == 8
\* results[:3]: candidates handed to _generate_fallback_response
FallbackTop == 3
\* k of the movie chat's rag.search_with_scores call
MovieK == 3
\* (current_movies + new_movies)[-10:]
ReferencedCap == 10
\* initial_k = k * 2 when re-ranking is used
RerankFactor == 2
\* k=initial_k * 2 of OptimizedMongoDBRAGService.search_optimized
MongoOverRetrieve == 2
\* k=k*3 of search_with_priority and search_for_recommendations
PriorityFactor == 3
\* k=k*2 of search_by_genre_or_theme
GenreFactor == 2
\* "limit": k * 2 of the $vectorSearch stage of vector_search
AtlasLimitFactor == 2
\* min_similarity=0.30, in hundredths
DefaultMinSimilarity == 30
\* `if len(self._embedding_cache) > 100`
CacheLimit == 100
\* ConversationMemoryManager(max_context_length=500)
MaxContextLength == 500
\* msg.content[:200] of get_conversation_context
ContentCut == 200
\* n_messages=5 and last_n=5
LastNMessages == 5
\* section_types of search_by_genre_or_theme
GenreSectionTypes == {"themes", "legacy", "characters", "plot_structure"}

VARIABLES
    \* ---- diversity selection (pure function, inputs drawn in Init) ----
    results,          \* the candidate list, ranked; results[i] = [section_id, movie_id]
    k,                \* requested number of results
    max_per_movie,    \* cap argument of _ensure_diversity
    diverse_results,  \* the list returned by the selection
    cap,              \* the cap the executed variant enforced
    dpc,              \* "input" before the call, then the name of the variant that ran
    \* ---- synchronous chat request (chat_message) ----
    spc,              \* position of the request in chat_message / chat
    req,              \* the request: movie_id (0 = none), conversation_id (0 = none), keywords
    conv,             \* the ChatConversation row and its ChatMessage rows
    store,            \* sections the vector search ranks for the query (above min_similarity)
    query_type,       \* result of _classify_query_type
    sresults,         \* results of rag.search_with_scores
    fault,            \* the collaborator failure that occurred in this request
    chat,             \* what the orchestrator's chat() handed to its caller
    http,             \* the JsonResponse of the view
    \* ---- streaming chat request (chat_message_stream) ----
    conv0,            \* the conversation rows as they were once the user message was saved
    svc_pc,           \* position of the service generator chat_stream
    view_pc,          \* position of the view generator event_stream
    llm_chunks,       \* contents of the chunks read from the language-model stream so far
    full_response,    \* full_response of chat_stream
    pending,          \* the event chat_stream has yielded and event_stream has not yet forwarded
    emitted,          \* all events chat_stream has yielded
    delivered,        \* all events event_stream has yielded to the client
    view,             \* locals of event_stream: full_message, sources_data, metadata
    \* ---- one retrieval call (RAG services and vector store clients) ----
    rpc,              \* "input" before the call, then the name of the function that ran
    docs,             \* the embeddings collection, ordered by descending similarity to the query
    args,             \* arguments of the call and the state of the model singleton
    store_state,      \* "up", "no_index" (no Atlas search index) or "down" (store unreachable)
    requested,        \* number of raw candidates the call asked the store for
    out,              \* what the call handed back: raised or a result list
    \* ---- first use of _ModelSingleton by several threads ----
    thread_pc,        \* position of each thread in _ModelSingleton.__new__
    cls_instance,     \* _ModelSingleton._instance (0 = None, else index into objects)
    objects,          \* the _ModelSingleton objects allocated so far: embedder loaded or not
    thread_obj,       \* the object each thread works on / got back (0 = none yet)
    loads,            \* number of times SentenceTransformer(...) was constructed
    \* ---- embedding cache of OptimizedMongoDBRAGService ----
    embedding_cache,  \* keys of _embedding_cache in insertion order
    cache_calls,      \* number of generate_embedding calls made
    cache_last,       \* what the last call did: key, hit, evicted key, size before, text, embedding returned
    \* ---- referenced_movies of one conversation over several requests ----
    conversation_row, \* referenced_movies of the ChatConversation row in the database
    proposals,        \* concatenation of the proposed lists, in response order
    requests,         \* per request: position, the view's copy of the row, what chat() returned
    row_prompt_sent,  \* system_prompt_sent of the ChatConversation row in the database
    prompts,          \* the prompts sent to the language model, in call order
    \* ---- one call of the query classifier ----
    cpc,              \* "input" before the call, "classified" after it
    cwords,           \* the keywords that occur in the lower-cased query
    chistory,         \* the conversation_history argument ("" = None or empty)
    cresult,          \* the label returned
    \* ---- one call of a conversation digest function ----
    mpc,              \* "input" before the call, then the name of the function that ran
    mhistory,         \* the conversation's messages, oldest first: role and content
    digest,           \* the text returned
    \* ---- the movie_embeddings collection under writes and migration runs ----
    collection,       \* the documents in insertion order: movie_id, section_type, section_id, embedding
    unique_indexes,   \* which unique indexes the collection has
    mig_pc,           \* per migration run: the section it is at and whether it has looked it up
    vs_ops,           \* number of direct write calls made
    vs_last,          \* the last write call: operation, key, vector, outcome
    \* ---- the conversation endpoints and the owners of the conversations ----
    conversations,    \* per conversation id: owner, whether the row (with its messages) exists, unread replies
    own_last,         \* the last request: endpoint, user, conversation, status, conversations shown
    \* ---- generate_embedding called by several threads on one service object ----
    shared_cache,     \* keys of _embedding_cache in insertion order
    cache_threads     \* per thread: position in generate_embedding, key, oldest key read, calls made, outcome

divVars == <<results, k, max_per_movie, diverse_results, cap, dpc>>

syncVars == <<spc, req, conv, store, query_type, sresults, fault, chat, http>>

streamVars == <<conv0, svc_pc, view_pc, llm_chunks, full_response, pending,
                emitted, delivered, view>>

retrVars == <<rpc, docs, args, store_state, requested, out>>

singletonVars == <<thread_pc, cls_instance, objects, thread_obj, loads>>

cacheVars == <<embedding_cache, cache_calls, cache_last>>

refVars == <<conversation_row, proposals, requests, row_prompt_sent, prompts>>

classVars == <<cpc, cwords, chistory, cresult>>

memVars == <<mpc, mhistory, digest>>

vsVars == <<collection, unique_indexes, mig_pc, vs_ops, vs_last>>

ownVars == <<conversations, own_last>>

ctVars == <<shared_cache, cache_threads>>

\* the variables of the digest, vector-store-write, ownership and
\* threaded-cache parts
moreVars == <<memVars, vsVars, ownVars, ctVars>>

oldVars == <<divVars, syncVars, streamVars, retrVars, singletonVars, cacheVars,
             refVars, classVars>>

\* the variables outside the diversity, chat and streaming parts
extVars == <<retrVars, singletonVars, cacheVars, refVars, classVars, moreVars>>

\* the variables outside the retrieval, singleton, cache, referenced-list and
\* classifier parts
chatVars == <<divVars, syncVars, streamVars, moreVars>>

vars == <<results, k, max_per_movie, diverse_results, cap, dpc,
          spc, req, conv, store, query_type, sresults, fault, chat, http,
          conv0, svc_pc, view_pc, llm_chunks, full_response, pending,
          emitted, delivered, view,
          rpc, docs, args, store_state, requested, out,
          thread_pc, cls_instance, objects, thread_obj, loads,
          embedding_cache, cache_calls, cache_last,
          conversation_row, proposals, requests, row_prompt_sent, prompts,
          cpc, cwords, chistory, cresult,
          mpc, mhistory, digest,
          collection, unique_indexes, mig_pc, vs_ops, vs_last,
          conversations, own_last,
          shared_cache, cache_threads>>

(***************************************************************************)
(* Helpers on sequences.                                                   *)
(***************************************************************************)
Min(a, b) == IF a < b THEN a ELSE b

Take(s, n) == SubSeq(s, 1, Min(n, Len(s)))

RECURSIVE IsSubsequence(_, _)
IsSubsequence(s, t) ==
    IF s = <<>> THEN TRUE
    ELSE IF t = <<>> THEN FALSE
    ELSE IF Head(s) = Head(t) THEN IsSubsequence(Tail(s), Tail(t))
    ELSE IsSubsequence(s, Tail(t))

CountMovie(s, m) == Cardinality({i \in 1..Len(s) : s[i].movie_id = m})

\* all ranked candidate lists: section ids are distinct, movies repeat freely
CandidateLists ==
    UNION {[1..n -> MovieIds] : n \in 0..MaxCandidates}

MkResults(ms) == [i \in 1..Len(ms) |-> [section_id |-> i, movie_id |-> ms[i]]]

(***************************************************************************)
(* Data of a chat request.                                                 *)
(***************************************************************************)
\* a movie title stands for its movie: title t is the title of movie t, and
\* title 0 is a name that matches no movie of the catalogue
Titles == 0..NumMovies

\* the sections of the catalogue that the vector search ranks for the query
StoreLists == UNION {[1..n -> MovieIds] : n \in 0..MaxStore}

\* referenced_movies lists of a conversation
ReferencedLists == UNION {[1..n -> Titles] : n \in 0..MaxReferenced}

\* all orders in which list(set(...)) can enumerate a set
OrdersOf(S) ==
    {s \in [1..Cardinality(S) -> S] : \A i, j \in 1..Cardinality(S) : s[i] = s[j] => i = j}

\* texts of the messages a response can carry
ErrorText == "Sorry, I encountered an error. Please try again."
NoInfoText == "I couldn't find relevant information in our movie database. Please try rephrasing your question."
TemplateText == "Based on our database, you might be interested in: <movies>. Please ask a more specific question for detailed insights."

\* a message: its text and, for the template, the movie titles filled in
Msg(text, movies) == [text |-> text, movies |-> movies]

NoMsg == Msg("<none>", {})

\* the fixed message of the `except` blocks of chat()
ErrorMessage == Msg(ErrorText, {})

\* contents the language model can put into a completion
LLMContents == {"", " ", "Inception explores dreams."}

\* str.strip() on the contents above
Strip(text) == IF text \in {"", " "} THEN "" ELSE text

\* str(e) of the exception a failing collaborator raises
ExceptionText(f) ==
    CASE f = "embedding" -> "RuntimeError: embedding model inference failed"
      [] f = "vector_store" -> "OperationalError: could not connect to server"
      [] f = "content_store" -> "OperationalError: connection to content store lost"
      [] f = "item_lookup" -> "Movie matching query does not exist."
      [] OTHER -> ""

Faults == {"embedding", "vector_store", "content_store", "item_lookup"}

\* what chat() hands to its caller
NoChat ==
    [outcome |-> "pending", message |-> NoMsg, sources |-> <<>>,
     referenced_movies |-> <<>>, is_first_message |-> FALSE,
     has_metadata |-> FALSE, exception |-> ""]

NoHttp == [status |-> 0, message |-> NoMsg, error |-> ""]

NoReq == [movie_id |-> 0, conversation_id |-> 0, words |-> {}]

NewConversation ==
    [system_prompt_sent |-> FALSE, referenced_movies |-> <<>>, messages |-> <<>>]

SyncIdle ==
    /\ spc = "idle"
    /\ req = NoReq
    /\ conv = NewConversation
    /\ store = <<>>
    /\ query_type = ""
    /\ sresults = <<>>
    /\ fault = "none"
    /\ chat = NoChat
    /\ http = NoHttp

\* an SSE event `data: {json}`: its type and the keys the view reads
Event(type) ==
    [type |-> type, content |-> "", message |-> <<>>, sources |-> <<>>,
     referenced_movies |-> <<>>, is_first_message |-> FALSE]

NoEvent == Event("<none>")

\* locals of event_stream before the loop
NoView == [full_message |-> <<>>, sources_data |-> <<>>, metadata |-> NoEvent]

StreamIdle ==
    /\ conv0 = NewConversation
    /\ svc_pc = "idle"
    /\ view_pc = "idle"
    /\ llm_chunks = <<>>
    /\ full_response = <<>>
    /\ pending = NoEvent
    /\ emitted = <<>>
    /\ delivered = <<>>
    /\ view = NoView

DivIdle ==
    /\ results = <<>>
    /\ k = 0
    /\ max_per_movie = 0
    /\ diverse_results = <<>>
    /\ cap = 0
    /\ dpc = "idle"

\* arguments of a retrieval call when no call is made
NoArgs ==
    [k |-> 0, movie_id |-> 0, min_similarity |-> 0, use_reranking |-> FALSE,
     cross_encoder |-> FALSE, query_type |-> "general"]

\* nothing handed back yet
NoOut == [raised |-> FALSE, results |-> <<>>]

RetrIdle ==
    /\ rpc = "idle"
    /\ docs = <<>>
    /\ args = NoArgs
    /\ store_state = "up"
    /\ requested = 0
    /\ out = NoOut

SingletonIdle ==
    /\ thread_pc = <<>>
    /\ cls_instance = 0
    /\ objects = <<>>
    /\ thread_obj = <<>>
    /\ loads = 0

\* no generate_embedding call made yet
NoCall ==
    [key |-> 0, hit |-> FALSE, evicted |-> 0, size_before |-> 0, rest |-> 0,
     returned |-> <<>>]

CacheIdle ==
    /\ embedding_cache = <<>>
    /\ cache_calls = 0
    /\ cache_last = NoCall

RefIdle ==
    /\ conversation_row = <<>>
    /\ proposals = <<>>
    /\ requests = <<>>
    /\ row_prompt_sent = FALSE
    /\ prompts = <<>>

ClassIdle ==
    /\ cpc = "idle"
    /\ cwords = {}
    /\ chistory = ""
    /\ cresult = ""

MemIdle ==
    /\ mpc = "idle"
    /\ mhistory = <<>>
    /\ digest = <<>>

NoWrite == [op |-> "", movie_id |-> 0, section_type |-> "", embedding |-> 0,
            outcome |-> ""]

VsIdle ==
    /\ collection = <<>>
    /\ unique_indexes = {}
    /\ mig_pc = <<>>
    /\ vs_ops = 0
    /\ vs_last = NoWrite

NoRequestYet == [endpoint |-> "", user |-> 0, conversation_id |-> 0, status |-> 0,
                 shown |-> {}]

OwnIdle ==
    /\ conversations = <<>>
    /\ own_last = NoRequestYet

CtIdle ==
    /\ shared_cache = <<>>
    /\ cache_threads = <<>>

MoreIdle == MemIdle /\ VsIdle /\ OwnIdle /\ CtIdle

ExtIdle == RetrIdle /\ SingletonIdle /\ CacheIdle /\ RefIdle /\ ClassIdle /\ MoreIdle

ChatIdle == DivIdle /\ SyncIdle /\ StreamIdle /\ MoreIdle

OldIdle ==
    /\ DivIdle
    /\ SyncIdle
    /\ StreamIdle
    /\ RetrIdle
    /\ SingletonIdle
    /\ CacheIdle
    /\ RefIdle
    /\ ClassIdle

(***************************************************************************)
(* _ensure_diversity and the inline diversity loops.                       *)
(***************************************************************************)
\* off-by-one admission test (mutation of Admissible)
AdmissibleOffByOne(movie_counts, movie_id, maxPer) ==
    movie_counts[movie_id] <= maxPer

\* `movie_counts.get(movie_id, 0) < max_per_movie`
Admissible(movie_counts, movie_id, maxPer) ==
    movie_counts[movie_id] < maxPer

\* loop body and break test of the selection, from candidate i on
RECURSIVE DiversityLoop(_, _, _, _, _, _)
DiversityLoop(rs, i, kk, maxPer, acc, movie_counts) ==
    IF i > Len(rs) THEN acc
    ELSE LET section == rs[i]
             movie_id == section.movie_id
             admit == Admissible(movie_counts, movie_id, maxPer)
             acc2 == IF admit THEN Append(acc, section) ELSE acc
             counts2 == IF admit
                        THEN [movie_counts EXCEPT ![movie_id] = @ + 1]
                        ELSE movie_counts
         IN IF Len(acc2) >= kk THEN acc2
            ELSE DiversityLoop(rs, i + 1, kk, maxPer, acc2, counts2)

_ensure_diversity(rs, kk, maxPer) ==
    DiversityLoop(rs, 1, kk, maxPer, <<>>, [m \in MovieIds |-> 0])

InitDiversity ==
    /\ \E ms \in CandidateLists : results = MkResults(ms)
    /\ k \in 0..MaxK
    /\ max_per_movie \in 0..MaxPerMovieArg
    /\ diverse_results = <<>>
    /\ cap = 0
    /\ dpc = "input"
    /\ SyncIdle
    /\ StreamIdle
    /\ ExtIdle

\* OptimizedRAGService._ensure_diversity(results, k, max_per_movie)
EnsureDiversity ==
    /\ dpc = "input"
    /\ diverse_results' = _ensure_diversity(results, k, max_per_movie)
    /\ cap' = max_per_movie
    /\ dpc' = "_ensure_diversity"
    /\ UNCHANGED <<results, k, max_per_movie>>
    /\ UNCHANGED <<syncVars, streamVars, extVars>>

\* the inline loop of OptimizedMongoDBRAGService.search_optimized (cap 2)
SearchOptimizedDiversity ==
    /\ dpc = "input"
    /\ diverse_results' = _ensure_diversity(results, k, InlineMaxPerMovie)
    /\ cap' = InlineMaxPerMovie
    /\ dpc' = "search_optimized"
    /\ UNCHANGED <<results, k, max_per_movie>>
    /\ UNCHANGED <<syncVars, streamVars, extVars>>

\* the inline loop of RAGService.search_for_recommendations (cap 2)
SearchForRecommendationsDiversity ==
    /\ dpc = "input"
    /\ diverse_results' = _ensure_diversity(results, k, InlineMaxPerMovie)
    /\ cap' = InlineMaxPerMovie
    /\ dpc' = "search_for_recommendations"
    /\ UNCHANGED <<results, k, max_per_movie>>
    /\ UNCHANGED <<syncVars, streamVars, extVars>>

NextDiversity ==
    \/ EnsureDiversity
    \/ SearchOptimizedDiversity
    \/ SearchForRecommendationsDiversity

SpecDiversity == InitDiversity /\ [][NextDiversity]_vars

(***************************************************************************)
(* Claims on the diversity selection.                                      *)
(***************************************************************************)
DiversityDone == dpc \notin {"input", "idle"}

\* C1: the selection never returns more than the cap of results sharing a
\* movie_id, and the returned list is a subsequence of the input list.
C1_DiversityCapAndOrder ==
    DiversityDone =>
        /\ \A m \in MovieIds : CountMovie(diverse_results, m) <= cap
        /\ IsSubsequence(diverse_results, results)

\* C1 witness: a movie with more candidates than the cap was cut down to the
\* cap while a later candidate of another movie was still admitted.
C1_Witness ==
    /\ DiversityDone
    /\ \E m \in MovieIds :
          /\ CountMovie(results, m) > cap
          /\ CountMovie(diverse_results, m) = cap
          /\ cap > 0
    /\ Len(diverse_results) < Len(results)
    /\ Len(diverse_results) >= 2
    /\ \E i \in 1..Len(diverse_results) :
          diverse_results[i].section_id > i

\* candidates admissible under the cap: fewer than maxPer earlier candidates
\* of the same movie precede them in the ranking
AdmissibleCandidates(rs, maxPer) ==
    LET ok(i) == Cardinality({j \in 1..(i - 1) : rs[j].movie_id = rs[i].movie_id}) < maxPer
        F[i \in 0..Len(rs)] ==
            IF i = 0 THEN <<>>
            ELSE IF ok(i) THEN Append(F[i - 1], rs[i]) ELSE F[i - 1]
    IN F[Len(rs)]

\* C2: for every k >= 0 (k = 0 included) the selection returns exactly the
\* first k candidates admissible under the cap, or all of them when fewer
\* than k exist; in particular never more than k.
C2_ExactlyFirstK ==
    DiversityDone =>
        /\ Len(diverse_results) <= k
        /\ diverse_results = Take(AdmissibleCandidates(results, cap), k)

(***************************************************************************)
(* The synchronous chat request: chat_message, ChatService.chat and        *)
(* GlobalChatService.chat.                                                 *)
(***************************************************************************)
\* follow_up_indicators of GlobalChatService._is_follow_up_question
follow_up_indicators ==
    {"them", "those", "these", "they", "their", "what about", "tell me more",
     "why", "how about", "and", "also"}

\* the keyword lists of GlobalChatService._classify_query_type
recommendation_keywords ==
    {"recommend", "suggestion", "should i watch", "similar to", "like",
     "what movie", "looking for", "want to watch", "good movies", "best movies",
     "top movies"}

comparison_keywords ==
    {"compare", "versus", "vs", "difference between", "better than", "similar",
     "both", "either"}

genre_theme_keywords ==
    {"genre", "theme", "about", "exploring", "dealing with", "drama", "comedy",
     "thriller", "action", "sci-fi", "love", "war", "family", "friendship",
     "redemption"}

\* a message is given by the keywords that occur in its lower-cased text;
\* chat requests draw one keyword of each list
KeywordClasses == {"them", "recommend", "compare", "genre"}

\* GlobalChatService._is_follow_up_question
_is_follow_up_question(words) == words \cap follow_up_indicators # {}

\* _classify_query_type with the comparison rule tested before the
\* recommendation rule (mutation of _classify_query_type)
_classify_query_type_swapped(words, conversation_history) ==
    IF conversation_history # "" /\ _is_follow_up_question(words) THEN "follow_up"
    ELSE IF words \cap comparison_keywords # {} THEN "comparison"
    ELSE IF words \cap recommendation_keywords # {} THEN "recommendation"
    ELSE IF words \cap genre_theme_keywords # {} THEN "genre_theme"
    ELSE "general"

\* GlobalChatService._classify_query_type
_classify_query_type(words, conversation_history) ==
    IF conversation_history # "" /\ _is_follow_up_question(words) THEN "follow_up"
    ELSE IF words \cap recommendation_keywords # {} THEN "recommendation"
    ELSE IF words \cap comparison_keywords # {} THEN "comparison"
    ELSE IF words \cap genre_theme_keywords # {} THEN "genre_theme"
    ELSE "general"

\* ConversationMemoryManager.get_conversation_context: the joined ROLE: content
\* lines of the last messages, empty when the conversation has no message
get_conversation_context(c) ==
    IF c.messages = <<>> THEN "" ELSE "USER: ..."

TitlesOf(rs) == {rs[i].movie_id : i \in 1..Len(rs)}

\* GlobalChatService._generate_fallback_response
_generate_fallback_response(rs) ==
    IF rs = <<>> THEN Msg(NoInfoText, {})
    ELSE Msg(TemplateText, TitlesOf(Take(rs, FallbackTop)))

\* OptimizedRAGService.search_optimized without a movie filter: the sections
\* above min_similarity ordered by distance, cut to k, then diversified
search_optimized(st, kk) ==
    _ensure_diversity(Take(MkResults(st), kk), kk, InlineMaxPerMovie)

\* RAGService.search_with_priority for one movie: the store pre-filters on
\* movie_id and returns at most 3k documents, of which the best k are kept
search_with_priority(st, kk, movie_id) ==
    Take(Take(SelectSeq(MkResults(st), LAMBDA r : r.movie_id = movie_id), 3 * kk), kk)

LastN(s, n) == IF Len(s) <= n THEN s ELSE SubSeq(s, Len(s) - n + 1, Len(s))

\* the conversation rows a request can find: a new conversation (created by
\* the view) or an existing one with one earlier exchange
InitSync ==
    /\ spc = "received"
    /\ \E m \in 0..NumMovies, c \in 0..1, w \in SUBSET KeywordClasses :
          req = [movie_id |-> m, conversation_id |-> c, words |-> w]
    /\ IF req.conversation_id = 0
       THEN conv = NewConversation
       ELSE \E sent \in BOOLEAN, refs \in ReferencedLists :
               conv = [system_prompt_sent |-> sent, referenced_movies |-> refs,
                       messages |-> <<[role |-> "user", content |-> Msg("<earlier user message>", {})],
                                      [role |-> "assistant", content |-> Msg("Inception explores dreams.", {})]>>]
    /\ store \in StoreLists
    /\ query_type = ""
    /\ sresults = <<>>
    /\ fault = "none"
    /\ chat = NoChat
    /\ http = NoHttp
    /\ DivIdle
    /\ StreamIdle
    /\ ExtIdle

\* chat_message up to the call of the chat service: get or create the
\* conversation and save the user's message
ChatMessageReceive ==
    /\ spc = "received"
    /\ conv' = [conv EXCEPT !.messages =
                   Append(@, [role |-> "user", content |-> Msg("<user message>", {})])]
    /\ spc' = "dispatch"
    /\ UNCHANGED <<req, store, query_type, sresults, fault, chat, http>>
    /\ UNCHANGED <<divVars, streamVars, extVars>>

\* the `except Exception` block of GlobalChatService.chat
GlobalErrorResult ==
    [outcome |-> "returned", message |-> ErrorMessage, sources |-> <<>>,
     referenced_movies |-> <<>>, is_first_message |-> FALSE,
     has_metadata |-> TRUE, exception |-> ""]

\* an exception leaving ChatService.chat
Raised(f) == [NoChat EXCEPT !.outcome = "raised", !.exception = ExceptionText(f)]

\* GlobalChatService.chat up to the prompt: conversation context,
\* classification and rag.search_with_scores(k=10, movie_id=None)
GlobalSearch ==
    /\ spc = "dispatch"
    /\ req.movie_id = 0
    /\ query_type' = _classify_query_type(req.words, get_conversation_context(conv))
    /\ \E f \in {"none", "embedding", "vector_store", "item_lookup"} :
          LET found == search_optimized(store, GlobalK)
          IN /\ f = "item_lookup" => found # <<>>
             /\ fault' = f
             /\ IF f = "none"
                THEN /\ sresults' = found
                     /\ spc' = "g_llm"
                     /\ chat' = chat
                ELSE /\ sresults' = <<>>
                     /\ spc' = "respond"
                     /\ chat' = GlobalErrorResult
    /\ UNCHANGED <<req, conv, store, http>>
    /\ UNCHANGED <<divVars, streamVars, extVars>>

LLMFailures == {"llm_raise", "llm_no_choices", "llm_none_content"}

\* GlobalChatService.chat from the completion call to the returned dict
GlobalGenerate ==
    /\ spc = "g_llm"
    /\ \E o \in LLMFailures \cup {"content"}, text \in LLMContents,
          order \in OrdersOf(TitlesOf(Take(sresults, GlobalSources))) :
          LET answer == IF o \in LLMFailures
                        THEN _generate_fallback_response(Take(sresults, FallbackTop))
                        ELSE Msg(Strip(text), {})
          IN /\ fault' = IF o \in LLMFailures THEN o
                         ELSE IF Strip(text) = "" THEN "llm_empty" ELSE "none"
             /\ chat' = [outcome |-> "returned", message |-> answer,
                         sources |-> Take(sresults, GlobalSources),
                         referenced_movies |-> order,
                         is_first_message |-> ~conv.system_prompt_sent,
                         has_metadata |-> TRUE, exception |-> ""]
    /\ spc' = "respond"
    /\ UNCHANGED <<req, conv, store, query_type, sresults, http>>
    /\ UNCHANGED <<divVars, streamVars, extVars>>

\* ChatService.chat for a movie: rag.search_with_scores(k=3, movie_id), outside
\* any try block; the store client swallows its own failure and returns []
MovieSearch ==
    /\ spc = "dispatch"
    /\ req.movie_id # 0
    /\ \E f \in {"none"} \cup Faults :
          LET found == search_with_priority(store, MovieK, req.movie_id)
          IN /\ f = "item_lookup" => found # <<>>
             /\ fault' = f
             /\ IF f \in {"none", "vector_store"}
                THEN /\ sresults' = IF f = "none" THEN found ELSE <<>>
                     /\ spc' = "m_lookup"
                     /\ chat' = chat
                ELSE /\ sresults' = <<>>
                     /\ spc' = "respond"
                     /\ chat' = Raised(f)
    /\ UNCHANGED <<req, conv, store, query_type, http>>
    /\ UNCHANGED <<divVars, streamVars, extVars>>

\* ChatService.chat: Movie.objects.get(id=movie_id), outside any try block
MovieLookup ==
    /\ spc = "m_lookup"
    /\ \E ok \in BOOLEAN :
          IF ok
          THEN /\ spc' = "m_llm"
               /\ UNCHANGED <<fault, chat>>
          ELSE /\ spc' = "respond"
               /\ fault' = "item_lookup"
               /\ chat' = Raised("item_lookup")
    /\ UNCHANGED <<req, conv, store, query_type, sresults, http>>
    /\ UNCHANGED <<divVars, streamVars, extVars>>

\* ChatService.chat: the try block around the Ollama call
MovieGenerate ==
    /\ spc = "m_llm"
    /\ \E o \in {"llm_raise", "llm_none_content", "content"}, text \in LLMContents :
          /\ fault' = IF o \in LLMFailures THEN o
                      ELSE IF Strip(text) = "" THEN "llm_empty" ELSE fault
          /\ chat' = IF o \in LLMFailures
                     THEN [NoChat EXCEPT !.outcome = "returned", !.message = ErrorMessage]
                     ELSE [NoChat EXCEPT !.outcome = "returned",
                                         !.message = Msg(Strip(text), {}),
                                         !.sources = sresults]
    /\ spc' = "respond"
    /\ UNCHANGED <<req, conv, store, query_type, sresults, http>>
    /\ UNCHANGED <<divVars, streamVars, extVars>>

\* chat_message after the chat service: persist and answer, or the view's
\* `except Exception` answering 500 with str(e)
ChatMessageRespond ==
    /\ spc = "respond"
    /\ IF chat.outcome = "raised"
       THEN /\ http' = [status |-> 500, message |-> NoMsg, error |-> chat.exception]
            /\ conv' = conv
       ELSE /\ conv' = [conv EXCEPT
                   !.system_prompt_sent = IF chat.is_first_message THEN TRUE ELSE @,
                   !.referenced_movies =
                       IF chat.referenced_movies # <<>>
                       THEN LastN(@ \o chat.referenced_movies, ReferencedCap)
                       ELSE @,
                   !.messages = Append(@, [role |-> "assistant", content |-> chat.message])]
            /\ http' = [status |-> 200, message |-> chat.message, error |-> ""]
    /\ spc' = "done"
    /\ UNCHANGED <<req, store, query_type, sresults, fault, chat>>
    /\ UNCHANGED <<divVars, streamVars, extVars>>

NextSync ==
    \/ ChatMessageReceive
    \/ GlobalSearch
    \/ GlobalGenerate
    \/ MovieSearch
    \/ MovieLookup
    \/ MovieGenerate
    \/ ChatMessageRespond

SpecSync == InitSync /\ [][NextSync]_vars

(***************************************************************************)
(* Claims on the synchronous chat request.                                 *)
(***************************************************************************)
ChatFinished == chat.outcome # "pending"

\* C3: when the vector store returns zero candidates the global orchestrator
\* returns without raising and the message is the 'no relevant information'
\* fallback text.
C3_ZeroCandidatesFallback ==
    (ChatFinished /\ req.movie_id = 0 /\ store = <<>> /\ fault \notin Faults) =>
        /\ chat.outcome = "returned"
        /\ chat.message = Msg(NoInfoText, {})

\* C4: an embedding or retrieval failure never leaves the orchestrator as an
\* exception and its text never reaches the caller: the result always carries
\* the one fixed user-safe message.
C4_FailureNeverLeaks ==
    (ChatFinished /\ fault \in Faults) =>
        /\ chat.outcome = "returned"
        /\ chat.message = ErrorMessage
        /\ chat.exception = ""
        /\ http.error = ""

\* C5: when the language-model call raises or returns an empty answer the
\* orchestrator returns the template fallback built from the best raw
\* candidates; the message is never empty and no error is surfaced.
C5_GenerationFallback ==
    (ChatFinished /\ fault \in LLMFailures \cup {"llm_empty"}) =>
        /\ chat.outcome = "returned"
        /\ chat.message = _generate_fallback_response(Take(sresults, FallbackTop))
        /\ chat.message.text # ""

\* C10: a follow_up request on a conversation whose referenced items all
\* resolve to known movies returns sources of those movies only.
C10_FollowUpRestricted ==
    (/\ spc = "respond"
     /\ chat.outcome = "returned"
     /\ query_type = "follow_up"
     /\ conv.referenced_movies # <<>>
     /\ \A i \in 1..Len(conv.referenced_movies) : conv.referenced_movies[i] \in MovieIds)
    => \A i \in 1..Len(chat.sources) :
          \E j \in 1..Len(conv.referenced_movies) :
              chat.sources[i].movie_id = conv.referenced_movies[j]

\* C21: system_prompt_sent is false at creation, becomes true only upon a
\* response whose language-model call succeeded, and never returns to false.
C21_FlagSetOnLLMSuccess ==
    [][/\ (spc = "received" /\ req.conversation_id = 0) => ~conv.system_prompt_sent
       /\ conv.system_prompt_sent => conv'.system_prompt_sent
       /\ (~conv.system_prompt_sent /\ conv'.system_prompt_sent) =>
              /\ spc = "respond"
              /\ chat.outcome = "returned"
              /\ fault \notin LLMFailures]_vars

\* C26: the first message of a newly created conversation is never classified
\* follow_up, whatever words it contains.
C26_FirstMessageNotFollowUp ==
    (req.conversation_id = 0 /\ spc \notin {"received", "dispatch"}) =>
        query_type # "follow_up"

(***************************************************************************)
(* The streaming chat request: chat_message_stream.event_stream on top of  *)
(* GlobalChatService.chat_stream / ChatService.chat_stream.  Texts are the *)
(* sequences of the chunks they were concatenated from.                    *)
(***************************************************************************)
\* contents of the deltas of the language-model stream ("" is a chunk
\* without content, which chat_stream skips)
ChunkContents == {"", "Inception ", "explores dreams."}

\* stores and referenced_movies lists of a streaming request
StreamStoreLists == UNION {[1..n -> MovieIds] : n \in 0..MaxStreamStore}

StreamReferencedLists == UNION {[1..n -> Titles] : n \in 0..MaxStreamReferenced}

InitStream ==
    /\ spc = "idle"
    /\ \E m \in 0..NumMovies, c \in 0..1 :
          req = [movie_id |-> m, conversation_id |-> c, words |-> {"them"}]
    /\ IF req.conversation_id = 0
       THEN conv = NewConversation
       ELSE \E sent \in BOOLEAN, refs \in StreamReferencedLists :
               conv = [system_prompt_sent |-> sent, referenced_movies |-> refs,
                       messages |-> <<[role |-> "user", content |-> <<"<earlier user message>">>],
                                      [role |-> "assistant", content |-> <<"Inception explores dreams.">>]>>]
    /\ store \in StreamStoreLists
    /\ query_type = ""
    /\ sresults = <<>>
    /\ fault = "none"
    /\ chat = NoChat
    /\ http = NoHttp
    /\ DivIdle
    /\ ExtIdle
    /\ conv0 = conv
    /\ svc_pc = "start"
    /\ view_pc = "received"
    /\ llm_chunks = <<>>
    /\ full_response = <<>>
    /\ pending = NoEvent
    /\ emitted = <<>>
    /\ delivered = <<>>
    /\ view = NoView

streamKept == <<spc, req, store, chat, http>>

\* chat_message_stream up to returning the StreamingHttpResponse: get or
\* create the conversation, save the user's message
StreamReceive ==
    /\ view_pc = "received"
    /\ conv' = [conv EXCEPT !.messages =
                   Append(@, [role |-> "user", content |-> <<"<user message>">>])]
    /\ conv0' = conv'
    /\ view_pc' = "pull"
    /\ UNCHANGED <<svc_pc, llm_chunks, full_response, pending, emitted, delivered, view>>
    /\ UNCHANGED <<query_type, sresults, fault>>
    /\ UNCHANGED <<streamKept, divVars, extVars>>

\* chat_stream runs only while event_stream waits in next(stream_gen)
ServiceRuns == view_pc = "pull" /\ pending = NoEvent

\* `yield` of chat_stream
Yield(e) ==
    /\ pending' = e
    /\ emitted' = Append(emitted, e)

\* the `except Exception` block at the end of chat_stream
YieldError(f) ==
    /\ Yield(Event("error"))
    /\ fault' = f
    /\ svc_pc' = "error_yielded"

\* chat_stream up to its first yield: conversation context, classification
\* (global chat only) and the rag_start event
ServiceStart ==
    /\ ServiceRuns
    /\ svc_pc = "start"
    /\ query_type' = IF req.movie_id = 0
                     THEN _classify_query_type(req.words, get_conversation_context(conv))
                     ELSE query_type
    /\ Yield(Event("rag_start"))
    /\ svc_pc' = "search"
    /\ UNCHANGED <<conv, conv0, view_pc, llm_chunks, full_response, delivered, view>>
    /\ UNCHANGED <<sresults, fault>>
    /\ UNCHANGED <<streamKept, divVars, extVars>>

\* chat_stream: rag.search_with_scores and the sources event; every exception
\* reaches the outer except block (the store client of the movie chat
\* swallows its own failure and returns [])
ServiceSearch ==
    /\ ServiceRuns
    /\ svc_pc = "search"
    /\ \E f \in {"none"} \cup Faults :
          LET found == IF req.movie_id = 0
                       THEN search_optimized(store, GlobalK)
                       ELSE search_with_priority(store, MovieK, req.movie_id)
              shown == IF req.movie_id = 0 THEN Take(found, GlobalSources) ELSE found
          IN /\ f = "item_lookup" => found # <<>>
             /\ f = "content_store" => req.movie_id # 0
             /\ IF f = "none" \/ (f = "vector_store" /\ req.movie_id # 0)
                THEN /\ sresults' = IF f = "none" THEN found ELSE <<>>
                     /\ fault' = f
                     /\ Yield([Event("sources") EXCEPT
                                  !.sources = IF f = "none" THEN shown ELSE <<>>])
                     /\ svc_pc' = "prompt"
                ELSE /\ sresults' = sresults
                     /\ YieldError(f)
    /\ UNCHANGED <<conv, conv0, view_pc, llm_chunks, full_response, delivered, view>>
    /\ UNCHANGED <<query_type>>
    /\ UNCHANGED <<streamKept, divVars, extVars>>

\* chat_stream: context and prompt (the movie chat looks the movie up) and
\* the llm_start event
ServicePrompt ==
    /\ ServiceRuns
    /\ svc_pc = "prompt"
    /\ \E ok \in BOOLEAN :
          /\ ~ok => req.movie_id # 0
          /\ IF ok
             THEN /\ Yield(Event("llm_start"))
                  /\ svc_pc' = "stream"
                  /\ fault' = fault
             ELSE YieldError("item_lookup")
    /\ UNCHANGED <<conv, conv0, view_pc, llm_chunks, full_response, delivered, view>>
    /\ UNCHANGED <<query_type, sresults>>
    /\ UNCHANGED <<streamKept, divVars, extVars>>

\* the text chat_stream substitutes when the language-model call raises
StreamFallback ==
    IF req.movie_id = 0
    THEN _generate_fallback_response(Take(sresults, FallbackTop)).text
    ELSE ErrorText

\* chat_stream: one iteration of `for chunk in stream`: a chunk with content
\* is appended and yielded, a chunk without content is skipped
ServiceReadChunk ==
    /\ ServiceRuns
    /\ svc_pc = "stream"
    /\ Len(llm_chunks) < MaxChunks
    /\ \E c \in ChunkContents :
          /\ llm_chunks' = Append(llm_chunks, c)
          /\ IF c # ""
             THEN /\ full_response' = Append(full_response, c)
                  /\ Yield([Event("content") EXCEPT !.content = c])
             ELSE UNCHANGED <<full_response, pending, emitted>>
    /\ UNCHANGED <<conv, conv0, view_pc, svc_pc, delivered, view>>
    /\ UNCHANGED <<query_type, sresults, fault>>
    /\ UNCHANGED <<streamKept, divVars, extVars>>

\* chat_stream: the language-model stream is exhausted
ServiceStreamEnd ==
    /\ ServiceRuns
    /\ svc_pc = "stream"
    /\ svc_pc' = "finish"
    /\ UNCHANGED <<conv, conv0, view_pc, llm_chunks, full_response, pending, emitted,
                   delivered, view>>
    /\ UNCHANGED <<query_type, sresults, fault>>
    /\ UNCHANGED <<streamKept, divVars, extVars>>

\* chat_stream: create() or the iteration raises; the inner except block
\* yields the fallback as a content event and makes it the full response
ServiceStreamRaises ==
    /\ ServiceRuns
    /\ svc_pc = "stream"
    /\ Yield([Event("content") EXCEPT !.content = StreamFallback])
    /\ full_response' = <<StreamFallback>>
    /\ fault' = "llm_raise"
    /\ svc_pc' = "finish"
    /\ UNCHANGED <<conv, conv0, view_pc, llm_chunks, delivered, view>>
    /\ UNCHANGED <<query_type, sresults>>
    /\ UNCHANGED <<streamKept, divVars, extVars>>

\* chat_stream: the completion event with message and metadata (the movie
\* chat sends neither referenced_movies nor is_first_message)
ServiceDone ==
    /\ ServiceRuns
    /\ svc_pc = "finish"
    /\ \E order \in OrdersOf(TitlesOf(Take(sresults, GlobalSources))) :
          Yield([Event("done") EXCEPT
                    !.message = full_response,
                    !.referenced_movies = IF req.movie_id = 0 THEN order ELSE <<>>,
                    !.is_first_message = req.movie_id = 0 /\ ~conv.system_prompt_sent])
    /\ svc_pc' = "done_yielded"
    /\ UNCHANGED <<conv, conv0, view_pc, llm_chunks, full_response, delivered, view>>
    /\ UNCHANGED <<query_type, sresults, fault>>
    /\ UNCHANGED <<streamKept, divVars, extVars>>

\* chat_stream returns after its last yield
ServiceReturn ==
    /\ ServiceRuns
    /\ svc_pc \in {"done_yielded", "error_yielded"}
    /\ svc_pc' = "ended"
    /\ UNCHANGED <<conv, conv0, view_pc, llm_chunks, full_response, pending, emitted,
                   delivered, view>>
    /\ UNCHANGED <<query_type, sresults, fault>>
    /\ UNCHANGED <<streamKept, divVars, extVars>>

\* what event_stream accumulates from an event even if it is an error event
\* (mutation of ParseEvent)
ParseEventKeepsError(v, e) ==
    CASE e.type = "sources" -> [v EXCEPT !.sources_data = e.sources]
      [] e.type = "content" -> [v EXCEPT !.full_message = Append(@, e.content)]
      [] e.type = "done" -> [v EXCEPT !.full_message = e.message, !.metadata = e]
      [] e.type = "error" -> [v EXCEPT !.full_message = Append(@, "Sorry, I encountered an error. Please try again.")]
      [] OTHER -> v

\* event_stream: parse a forwarded event for database storage
ParseEvent(v, e) ==
    CASE e.type = "sources" -> [v EXCEPT !.sources_data = e.sources]
      [] e.type = "content" -> [v EXCEPT !.full_message = Append(@, e.content)]
      [] e.type = "done" -> [v EXCEPT !.full_message = e.message, !.metadata = e]
      [] OTHER -> v

\* event_stream: `yield event`, the generator is suspended until the client
\* side asks for the next event
ViewForward ==
    /\ view_pc = "pull"
    /\ pending # NoEvent
    /\ delivered' = Append(delivered, pending)
    /\ pending' = NoEvent
    /\ view_pc' = "yielded"
    /\ UNCHANGED <<conv, conv0, svc_pc, llm_chunks, full_response, emitted, view>>
    /\ UNCHANGED <<query_type, sresults, fault>>
    /\ UNCHANGED <<streamKept, divVars, extVars>>

\* event_stream resumes after `yield event` and parses the event
ViewResume ==
    /\ view_pc = "yielded"
    /\ view' = ParseEvent(view, delivered[Len(delivered)])
    /\ view_pc' = "pull"
    /\ UNCHANGED <<conv, conv0, svc_pc, llm_chunks, full_response, pending, emitted,
                   delivered>>
    /\ UNCHANGED <<query_type, sresults, fault>>
    /\ UNCHANGED <<streamKept, divVars, extVars>>

\* event_stream after the loop: save the assistant message and update the
\* conversation if a message was accumulated
PersistStream(c, v) ==
    IF v.full_message # <<>>
    THEN [c EXCEPT
            !.messages = Append(@, [role |-> "assistant", content |-> v.full_message]),
            !.system_prompt_sent = IF v.metadata.is_first_message THEN TRUE ELSE @,
            !.referenced_movies =
                IF v.metadata.referenced_movies # <<>>
                THEN LastN(@ \o v.metadata.referenced_movies, ReferencedCap)
                ELSE @]
    ELSE c

\* event_stream once chat_stream is exhausted: persist, then yield the final
\* metadata event
ViewPersist ==
    /\ view_pc = "pull"
    /\ pending = NoEvent
    /\ svc_pc = "ended"
    /\ conv' = PersistStream(conv, view)
    /\ delivered' = Append(delivered, [Event("metadata") EXCEPT !.sources = view.sources_data])
    /\ view_pc' = "final_yielded"
    /\ UNCHANGED <<conv0, svc_pc, llm_chunks, full_response, pending, emitted, view>>
    /\ UNCHANGED <<query_type, sresults, fault>>
    /\ UNCHANGED <<streamKept, divVars, extVars>>

\* event_stream returns after the final event
ViewReturn ==
    /\ view_pc = "final_yielded"
    /\ view_pc' = "ended"
    /\ UNCHANGED <<conv, conv0, svc_pc, llm_chunks, full_response, pending, emitted,
                   delivered, view>>
    /\ UNCHANGED <<query_type, sresults, fault>>
    /\ UNCHANGED <<streamKept, divVars, extVars>>

\* a disconnect after which event_stream still saves what it accumulated, as
\* a `finally:` around the loop would (mutation of ClientDisconnect)
ClientDisconnectPersists ==
    /\ view_pc \in {"yielded", "final_yielded"}
    /\ view_pc' = IF view_pc = "yielded" THEN "closed_in_loop" ELSE "closed_at_end"
    /\ svc_pc' = IF svc_pc = "ended" THEN svc_pc ELSE "closed"
    /\ conv' = IF view_pc = "yielded"
               THEN PersistStream(conv, ParseEvent(view, delivered[Len(delivered)]))
               ELSE conv
    /\ UNCHANGED <<conv0, llm_chunks, full_response, pending, emitted,
                   delivered, view>>
    /\ UNCHANGED <<query_type, sresults, fault>>
    /\ UNCHANGED <<streamKept, divVars, extVars>>

\* the client disconnects: the response is closed while event_stream is
\* suspended at a yield; GeneratorExit is not an Exception, so no handler of
\* event_stream or chat_stream runs and both generators end there
ClientDisconnect ==
    /\ view_pc \in {"yielded", "final_yielded"}
    /\ view_pc' = IF view_pc = "yielded" THEN "closed_in_loop" ELSE "closed_at_end"
    /\ svc_pc' = IF svc_pc = "ended" THEN svc_pc ELSE "closed"
    /\ UNCHANGED <<conv, conv0, llm_chunks, full_response, pending, emitted,
                   delivered, view>>
    /\ UNCHANGED <<query_type, sresults, fault>>
    /\ UNCHANGED <<streamKept, divVars, extVars>>

NextStream ==
    \/ StreamReceive
    \/ ServiceStart
    \/ ServiceSearch
    \/ ServicePrompt
    \/ ServiceReadChunk
    \/ ServiceStreamEnd
    \/ ServiceStreamRaises
    \/ ServiceDone
    \/ ServiceReturn
    \/ ViewForward
    \/ ViewResume
    \/ ViewPersist
    \/ ViewReturn
    \/ ClientDisconnect

SpecStream == InitStream /\ [][NextStream]_vars

(***************************************************************************)
(* Retrieval: the vector store clients and the search entry points of the  *)
(* RAG services.  Similarities are in hundredths, weights in tenths and    *)
(* weighted scores in thousandths.                                         *)
(***************************************************************************)
\* the movies that own documents of the collection
StoreMovies == 1..NumStoreMovies

\* MovieSectionMongoDB.SECTION_TYPES
SECTION_TYPES ==
    {"production", "plot_structure", "cast_crew", "characters",
     "visual_technical", "themes", "reception", "legacy"}

\* section kinds of the documents the model draws
KindsUsed == {"themes", "legacy"}

\* similarities of the documents the model draws: 0.0, 0.30 and 0.60
SimValues == {0, 30, 60}

\* min_similarity values passed by callers: 0.0 and the default 0.30
MinSimilarities == {0, DefaultMinSimilarity}

\* outputs of RAGService._classify_query_type
RagQueryTypes == {"plot", "technical", "analysis", "facts", "general"}

\* scores the cross-encoder can give a (query, content) pair
RerankScores == {0, 500}

DocRecs == [movie_id : StoreMovies, section_type : KindsUsed, similarity : SimValues]

\* collections in the order the nearest-neighbour search ranks them; the
\* unique index allows one document per (movie_id, section_type)
DocLists ==
    UNION {{d \in [1..n -> DocRecs] :
               /\ \A i \in 1..(n - 1) : d[i].similarity >= d[i + 1].similarity
               /\ \A i, j \in 1..n :
                     (d[i].movie_id = d[j].movie_id /\ d[i].section_type = d[j].section_type)
                         => i = j}
           : n \in 0..MaxDocs}

MkDocs(d) ==
    [i \in 1..Len(d) |->
        [section_id |-> i, movie_id |-> d[i].movie_id,
         section_type |-> d[i].section_type, similarity |-> d[i].similarity]]

\* a candidate with its weighted_score attribute
Scored(d, score) ==
    [section_id |-> d.section_id, movie_id |-> d.movie_id,
     section_type |-> d.section_type, similarity |-> d.similarity,
     weighted_score |-> score]

\* getattr(section, 'weighted_score', 1.0 - section.distance)
Unweighted(rs) == [i \in 1..Len(rs) |-> Scored(rs[i], rs[i].similarity * 10)]

Last(s) == s[Len(s)]

Front(s) == SubSeq(s, 1, Len(s) - 1)

\* sorted(..., key=weighted_score, reverse=True): descending and stable
RECURSIVE InsertByScore(_, _)
InsertByScore(s, x) ==
    IF s = <<>> THEN <<x>>
    ELSE IF Head(s).weighted_score >= x.weighted_score
         THEN <<Head(s)>> \o InsertByScore(Tail(s), x)
         ELSE <<x>> \o s

RECURSIVE SortByScore(_)
SortByScore(rs) ==
    IF rs = <<>> THEN <<>> ELSE InsertByScore(SortByScore(Front(rs)), Last(rs))

\* MovieSectionMongoDB.vector_search: $vectorSearch with limit 2k over the
\* whole collection, $match on similarity, $match on movie_id, $limit k
vector_search(ds, kk, movie_id, min_similarity) ==
    LET top == Take(ds, AtlasLimitFactor * kk)
        similar == SelectSeq(top, LAMBDA d : d.similarity >= min_similarity)
        mine == IF movie_id # 0
                THEN SelectSeq(similar, LAMBDA d : d.movie_id = movie_id)
                ELSE similar
    IN Take(mine, kk)

\* MongoDBVectorService.cosine_similarity_search: find(match_filter),
\* similarity filter, sort, [:k]; any exception is logged and [] returned
cosine_similarity_search(state, ds, kk, movie_id, section_types, min_similarity) ==
    LET mine == IF movie_id # 0
                THEN SelectSeq(ds, LAMBDA d : d.movie_id = movie_id) ELSE ds
        typed == IF section_types # {}
                 THEN SelectSeq(mine, LAMBDA d : d.section_type \in section_types)
                 ELSE mine
        similar == SelectSeq(typed, LAMBDA d : d.similarity >= min_similarity)
    IN IF state = "down" THEN <<>> ELSE Take(similar, kk)

\* MongoDBVectorService.vector_search_atlas: $vectorSearch with the filter
\* inside and limit k; OperationFailure falls back to cosine_similarity_search,
\* any other exception is logged and [] returned
vector_search_atlas(state, ds, kk, movie_id) ==
    LET mine == IF movie_id # 0
                THEN SelectSeq(ds, LAMBDA d : d.movie_id = movie_id) ELSE ds
    IN CASE state = "up" -> Take(mine, kk)
         [] state = "no_index" -> cosine_similarity_search(state, ds, kk, movie_id, {}, 0)
         [] OTHER -> <<>>

\* the section_weights matrix of search_with_priority / search_optimized
section_weights ==
    [plot |->
        [plot_structure |-> 35, characters |-> 20, themes |-> 15, production |-> 10,
         cast_crew |-> 8, visual_technical |-> 5, reception |-> 5, legacy |-> 5],
     technical |->
        [visual_technical |-> 35, production |-> 20, cast_crew |-> 15, themes |-> 10,
         plot_structure |-> 8, characters |-> 5, reception |-> 5, legacy |-> 5],
     analysis |->
        [themes |-> 35, characters |-> 25, visual_technical |-> 20, plot_structure |-> 15,
         cast_crew |-> 10, production |-> 8, reception |-> 8, legacy |-> 10],
     facts |->
        [production |-> 35, cast_crew |-> 25, reception |-> 20, legacy |-> 15,
         plot_structure |-> 10, characters |-> 8, visual_technical |-> 8, themes |-> 5],
     general |->
        [plot_structure |-> 22, themes |-> 18, characters |-> 16, visual_technical |-> 14,
         production |-> 12, cast_crew |-> 12, reception |-> 10, legacy |-> 10]]

\* section_weights.get(query_type, section_weights['general'])
WeightsFor(qt) ==
    IF qt \in DOMAIN section_weights THEN section_weights[qt] ELSE section_weights["general"]

\* weights.get(section_type, 1.0) with a default other than 1.0
\* (mutation of WeightOf)
WeightOfHalfDefault(weights, section_type) ==
    IF section_type \in DOMAIN weights THEN weights[section_type] ELSE 5

\* weights.get(section_type, 1.0)
WeightOf(weights, section_type) ==
    IF section_type \in DOMAIN weights THEN weights[section_type] ELSE 10

\* the explicit entries of search_for_recommendations: themes, characters * 1.5
recommendation_weights == [themes |-> 15, characters |-> 15]

\* result['weighted_score'] = result['similarity'] * weight
ApplyWeights(rs, weights) ==
    [i \in 1..Len(rs) |->
        Scored(rs[i], rs[i].similarity * WeightOf(weights, rs[i].section_type))]

\* the queryset of OptimizedRAGService.search_optimized: movie filter,
\* similarity__gte, order_by('distance')[:initial_k]
pg_queryset(ds, movie_id, min_similarity, initial_k) ==
    LET mine == IF movie_id # 0
                THEN SelectSeq(ds, LAMBDA d : d.movie_id = movie_id) ELSE ds
    IN Take(SelectSeq(mine, LAMBDA d : d.similarity >= min_similarity), initial_k)

\* OptimizedRAGService._rerank_with_cross_encoder, given the scores of predict()
_rerank_with_cross_encoder(rs, scores, top_k) ==
    Take(SortByScore([i \in 1..Len(rs) |-> Scored(rs[i], scores[i])]), top_k)

\* 0.6 * weighted_score + 0.4 * rerank_scores[i]
Blend(ws, scores) ==
    [i \in 1..Len(ws) |-> Scored(ws[i], (6 * ws[i].weighted_score + 4 * scores[i]) \div 10)]

\* _use_reranking of the _ModelSingleton of optimized_mongodb_rag_service
\* (USE_RERANKER = False)
MongoUseReranking == FALSE

StoreStates == {"up", "no_index", "down"}

MkArgs(kk, movie_id, min_similarity, use_reranking, cross_encoder, qt) ==
    [k |-> kk, movie_id |-> movie_id, min_similarity |-> min_similarity,
     use_reranking |-> use_reranking, cross_encoder |-> cross_encoder,
     query_type |-> qt]

RaisedOut == [raised |-> TRUE, results |-> <<>>]

Returned(rs) == [raised |-> FALSE, results |-> rs]

retrKept == <<docs, store_state, chatVars, singletonVars, cacheVars, refVars, classVars>>

InitRetrieval ==
    /\ rpc = "input"
    /\ \E d \in DocLists : docs = MkDocs(d)
    /\ args = NoArgs
    /\ store_state \in StoreStates
    /\ requested = 0
    /\ out = NoOut
    /\ ChatIdle
    /\ SingletonIdle
    /\ CacheIdle
    /\ RefIdle
    /\ ClassIdle

\* OptimizedRAGService.search_optimized (pgvector)
PgSearchOptimized ==
    /\ rpc = "input"
    /\ \E kk \in 1..MaxRetrK, m \in 0..NumStoreMovies, ms \in MinSimilarities,
          ur \in BOOLEAN, ce \in BOOLEAN :
         LET rerank == ur /\ ce
             initial_k == IF rerank THEN kk * RerankFactor ELSE kk
             found == pg_queryset(docs, m, ms, initial_k)
             reranking == rerank /\ Len(found) > 0
         IN /\ args' = MkArgs(kk, m, ms, ur, ce, "general")
            /\ requested' = initial_k
            /\ IF store_state = "down"
               THEN out' = RaisedOut
               ELSE \E scores \in (IF reranking THEN [1..Len(found) -> RerankScores] ELSE {<<>>}),
                       predict_raises \in (IF reranking THEN BOOLEAN ELSE {FALSE}) :
                        LET ranked == IF ~reranking THEN Unweighted(found)
                                      ELSE IF predict_raises THEN Unweighted(Take(found, kk))
                                      ELSE _rerank_with_cross_encoder(found, scores, kk)
                        IN out' = Returned(_ensure_diversity(ranked, kk, InlineMaxPerMovie))
    /\ rpc' = "OptimizedRAGService.search_optimized"
    /\ UNCHANGED retrKept

\* OptimizedMongoDBRAGService.search_optimized
MongoSearchOptimized ==
    /\ rpc = "input"
    /\ \E kk \in 1..MaxRetrK, m \in 0..NumStoreMovies, ms \in MinSimilarities,
          ur \in BOOLEAN, qt \in RagQueryTypes :
         LET rerank == ur /\ MongoUseReranking
             initial_k == IF rerank THEN kk * RerankFactor ELSE kk
             mongo_results == vector_search(docs, initial_k * MongoOverRetrieve, m, ms)
             weighted == ApplyWeights(mongo_results, WeightsFor(qt))
         IN /\ args' = MkArgs(kk, m, ms, ur, MongoUseReranking, qt)
            /\ requested' = AtlasLimitFactor * (initial_k * MongoOverRetrieve)
            /\ IF store_state # "up"
               THEN out' = RaisedOut
               ELSE \E scores \in (IF rerank THEN [1..Len(weighted) -> RerankScores] ELSE {<<>>}) :
                        LET blended == IF rerank THEN Blend(weighted, scores) ELSE weighted
                            reranked == SortByScore(blended)
                            diverse == _ensure_diversity(reranked, kk, InlineMaxPerMovie)
                        IN \* the log line reads diverse_results[0]: IndexError when empty
                           out' = IF diverse = <<>> THEN RaisedOut ELSE Returned(diverse)
    /\ rpc' = "OptimizedMongoDBRAGService.search_optimized"
    /\ UNCHANGED retrKept

\* RAGService.search_with_priority
RAGSearchWithPriority ==
    /\ rpc = "input"
    /\ \E kk \in 1..MaxRetrK, m \in 0..NumStoreMovies, qt \in RagQueryTypes :
         LET mongo_results ==
                 cosine_similarity_search(store_state, docs, kk * PriorityFactor, m, {}, 0)
             weighted == ApplyWeights(mongo_results, WeightsFor(qt))
         IN /\ args' = MkArgs(kk, m, 0, FALSE, FALSE, qt)
            /\ requested' = kk * PriorityFactor
            /\ out' = Returned(Take(SortByScore(weighted), kk))
    /\ rpc' = "RAGService.search_with_priority"
    /\ UNCHANGED retrKept

\* MongoDBRAGService.search_with_priority
MongoSearchWithPriority ==
    /\ rpc = "input"
    /\ \E kk \in 1..MaxRetrK, m \in 0..NumStoreMovies, qt \in RagQueryTypes :
         LET mongo_results ==
                 vector_search(docs, kk * PriorityFactor, m, DefaultMinSimilarity)
             weighted == ApplyWeights(mongo_results, WeightsFor(qt))
         IN /\ args' = MkArgs(kk, m, DefaultMinSimilarity, FALSE, FALSE, qt)
            /\ requested' = AtlasLimitFactor * (kk * PriorityFactor)
            /\ out' = IF store_state # "up" THEN RaisedOut
                      ELSE Returned(Take(SortByScore(weighted), kk))
    /\ rpc' = "MongoDBRAGService.search_with_priority"
    /\ UNCHANGED retrKept

\* RAGService.search_for_recommendations without filters
RAGSearchForRecommendations ==
    /\ rpc = "input"
    /\ \E kk \in 1..MaxRetrK :
         LET mongo_results ==
                 cosine_similarity_search(store_state, docs, kk * PriorityFactor, 0, {}, 0)
             weighted == ApplyWeights(mongo_results, recommendation_weights)
         IN /\ args' = MkArgs(kk, 0, 0, FALSE, FALSE, "recommendation")
            /\ requested' = kk * PriorityFactor
            /\ out' = Returned(_ensure_diversity(SortByScore(weighted), kk, InlineMaxPerMovie))
    /\ rpc' = "RAGService.search_for_recommendations"
    /\ UNCHANGED retrKept

\* RAGService.search_by_genre_or_theme: no weighting, one section per movie
RAGSearchByGenreOrTheme ==
    /\ rpc = "input"
    /\ \E kk \in 1..MaxRetrK :
         LET mongo_results ==
                 cosine_similarity_search(store_state, docs, kk * GenreFactor, 0,
                                          GenreSectionTypes, 0)
         IN /\ args' = MkArgs(kk, 0, 0, FALSE, FALSE, "genre_theme")
            /\ requested' = kk * GenreFactor
            /\ out' = Returned(_ensure_diversity(Unweighted(mongo_results), kk, 1))
    /\ rpc' = "RAGService.search_by_genre_or_theme"
    /\ UNCHANGED retrKept

\* MovieSectionMongoDB.vector_search called directly
VectorSearch ==
    /\ rpc = "input"
    /\ \E kk \in 1..MaxRetrK, m \in 0..NumStoreMovies, ms \in MinSimilarities :
         /\ args' = MkArgs(kk, m, ms, FALSE, FALSE, "general")
         /\ requested' = AtlasLimitFactor * kk
         /\ out' = IF store_state # "up" THEN RaisedOut
                   ELSE Returned(vector_search(docs, kk, m, ms))
    /\ rpc' = "vector_search"
    /\ UNCHANGED retrKept

\* MongoDBVectorService.cosine_similarity_search called directly
CosineSimilaritySearch ==
    /\ rpc = "input"
    /\ \E kk \in 1..MaxRetrK, m \in 0..NumStoreMovies, ms \in MinSimilarities :
         /\ args' = MkArgs(kk, m, ms, FALSE, FALSE, "general")
         /\ requested' = kk
         /\ out' = Returned(cosine_similarity_search(store_state, docs, kk, m, {}, ms))
    /\ rpc' = "cosine_similarity_search"
    /\ UNCHANGED retrKept

\* MongoDBVectorService.vector_search_atlas called directly
VectorSearchAtlas ==
    /\ rpc = "input"
    /\ \E kk \in 1..MaxRetrK, m \in 0..NumStoreMovies :
         /\ args' = MkArgs(kk, m, 0, FALSE, FALSE, "general")
         /\ requested' = kk
         /\ out' = Returned(vector_search_atlas(store_state, docs, kk, m))
    /\ rpc' = "vector_search_atlas"
    /\ UNCHANGED retrKept

NextRetrieval ==
    \/ PgSearchOptimized
    \/ MongoSearchOptimized
    \/ RAGSearchWithPriority
    \/ MongoSearchWithPriority
    \/ RAGSearchForRecommendations
    \/ RAGSearchByGenreOrTheme
    \/ VectorSearch
    \/ CosineSimilaritySearch
    \/ VectorSearchAtlas

SpecRetrieval == InitRetrieval /\ [][NextRetrieval]_vars

(***************************************************************************)
(* Claims on the vector store clients.                                     *)
(***************************************************************************)
\* the search entry points of the RAG services
EntryPoints ==
    {"OptimizedRAGService.search_optimized",
     "OptimizedMongoDBRAGService.search_optimized",
     "RAGService.search_with_priority",
     "MongoDBRAGService.search_with_priority",
     "RAGService.search_for_recommendations",
     "RAGService.search_by_genre_or_theme"}

\* C11: every entry point asked for k results requests at least 2*k raw
\* candidates from the vector store, re-ranking enabled or not
C11_OverRetrieval ==
    rpc \in EntryPoints => requested >= 2 * args.k

\* the store client functions
StoreSearches == {"vector_search", "cosine_similarity_search", "vector_search_atlas"}

\* the similarity threshold the call applied (vector_search_atlas has none)
ThresholdOf(fn, a) == IF fn = "vector_search_atlas" THEN 0 ELSE a.min_similarity

\* number of sections of movie m whose similarity meets the threshold
Qualifying(ds, m, threshold) ==
    Cardinality({i \in 1..Len(ds) : ds[i].movie_id = m /\ ds[i].similarity >= threshold})

\* C12: a vector search restricted to one movie id returns min(k, n) results,
\* n being the number of that movie's sections that meet the threshold,
\* whatever sections of other movies rank above them
C12_ItemFilterComplete ==
    (rpc \in StoreSearches /\ args.movie_id # 0 /\ ~out.raised /\ store_state = "up")
        => Len(out.results) = Min(args.k, Qualifying(docs, args.movie_id, ThresholdOf(rpc, args)))

\* C13: cosine_similarity_search and vector_search_atlas report a failing
\* store as a failure, and return an empty list only when the search
\* succeeded and matched nothing
C13_StoreFailureSurfaced ==
    rpc \in {"cosine_similarity_search", "vector_search_atlas"} =>
        /\ store_state = "down" => out.raised
        /\ (~out.raised /\ out.results = <<>>) => store_state # "down"

(***************************************************************************)
(* Claims on the relevance weighting.                                      *)
(***************************************************************************)
\* the kinds for which the code names a multiplier under the given intent
ExplicitKinds(intent) ==
    CASE intent \in RagQueryTypes ->
            {"production", "plot_structure", "cast_crew", "characters",
             "visual_technical", "themes", "reception", "legacy"}
      [] intent = "recommendation" -> {"themes", "characters"}
      [] OTHER -> {}

\* the call ran the cross-encoder stage
Reranked == args.use_reranking /\ args.cross_encoder

C15_MonotonicWeighting ==
    rpc \in EntryPoints =>
        \A i, j \in 1..Len(out.results) :
            (/\ out.results[i].section_type = out.results[j].section_type
             /\ out.results[i].similarity > out.results[j].similarity)
                => /\ out.results[i].weighted_score >= out.results[j].weighted_score
                   /\ i < j

\* the entry points that look the weight up in section_weights
MatrixEntryPoints ==
    {"OptimizedMongoDBRAGService.search_optimized",
     "RAGService.search_with_priority",
     "MongoDBRAGService.search_with_priority"}

\* C16: under intent general a themes candidate (1.8) scores strictly higher
\* than a legacy candidate (1.0) of equal raw similarity, for every raw
\* similarity the retrieval can return
C16_ThemesAboveLegacy ==
    (rpc \in MatrixEntryPoints /\ args.query_type = "general") =>
        \A i, j \in 1..Len(out.results) :
            (/\ out.results[i].section_type = "themes"
             /\ out.results[j].section_type = "legacy"
             /\ out.results[i].similarity = out.results[j].similarity)
                => out.results[i].weighted_score > out.results[j].weighted_score

(***************************************************************************)
(* _ModelSingleton.__new__ and _load_models under several threads.  A      *)
(* thread can be preempted between any two reads or writes of a shared     *)
(* attribute; constructing a model takes long and is a step of its own.    *)
(***************************************************************************)
Threads == 1..NumThreads

\* a freshly allocated _ModelSingleton: the class attributes show through
NewObject == [embedder |-> FALSE, reranker |-> FALSE, use_reranking |-> FALSE]

\* what a thread holds: `self` inside _load_models, and what __new__ returned
NoThreadObj == [self |-> 0, returned |-> 0, embedder |-> FALSE]

singletonKept == <<chatVars, retrVars, cacheVars, refVars, classVars>>

InitSingleton ==
    /\ thread_pc = [t \in Threads |-> "new"]
    /\ cls_instance = 0
    /\ objects = <<>>
    /\ thread_obj = [t \in Threads |-> NoThreadObj]
    /\ loads = 0
    /\ ChatIdle
    /\ RetrIdle
    /\ CacheIdle
    /\ RefIdle
    /\ ClassIdle

\* `if cls._instance is None:`
NewCheck(t) ==
    /\ thread_pc[t] = "new"
    /\ thread_pc' = [thread_pc EXCEPT ![t] = IF cls_instance = 0 THEN "allocate" ELSE "return"]
    /\ UNCHANGED <<cls_instance, objects, thread_obj, loads>>
    /\ UNCHANGED singletonKept

\* `cls._instance = super(_ModelSingleton, cls).__new__(cls)`
NewAllocate(t) ==
    /\ thread_pc[t] = "allocate"
    /\ objects' = Append(objects, NewObject)
    /\ cls_instance' = Len(objects) + 1
    /\ thread_pc' = [thread_pc EXCEPT ![t] = "call_load"]
    /\ UNCHANGED <<thread_obj, loads>>
    /\ UNCHANGED singletonKept

\* `cls._instance._load_models()`: reads cls._instance and enters
\* _load_models, `if self._embedder is None:`
LoadModelsEnter(t) ==
    /\ thread_pc[t] = "call_load"
    /\ thread_obj' = [thread_obj EXCEPT ![t].self = cls_instance]
    /\ thread_pc' = [thread_pc EXCEPT ![t] =
                        IF objects[cls_instance].embedder THEN "reranker" ELSE "loading"]
    /\ UNCHANGED <<cls_instance, objects, loads>>
    /\ UNCHANGED singletonKept

\* `self._embedder = SentenceTransformer(...)`
LoadEmbedder(t) ==
    /\ thread_pc[t] = "loading"
    /\ loads' = loads + 1
    /\ objects' = [objects EXCEPT ![thread_obj[t].self].embedder = TRUE]
    /\ thread_pc' = [thread_pc EXCEPT ![t] = "reranker"]
    /\ UNCHANGED <<cls_instance, thread_obj>>
    /\ UNCHANGED singletonKept

\* `if self._reranker is None:` and the try block loading the CrossEncoder
LoadReranker(t) ==
    /\ thread_pc[t] = "reranker"
    /\ LET self == thread_obj[t].self
       IN IF objects[self].reranker
          THEN UNCHANGED objects
          ELSE \E ok \in BOOLEAN :
                  objects' = [objects EXCEPT ![self].reranker = ok,
                                             ![self].use_reranking = ok]
    /\ thread_pc' = [thread_pc EXCEPT ![t] = "return"]
    /\ UNCHANGED <<cls_instance, thread_obj, loads>>
    /\ UNCHANGED singletonKept

\* `return cls._instance`, then `self.embedder = self._models.embedder` in
\* the __init__ of the service
NewReturn(t) ==
    /\ thread_pc[t] = "return"
    /\ thread_obj' = [thread_obj EXCEPT ![t].returned = cls_instance,
                                        ![t].embedder = objects[cls_instance].embedder]
    /\ thread_pc' = [thread_pc EXCEPT ![t] = "done"]
    /\ UNCHANGED <<cls_instance, objects, loads>>
    /\ UNCHANGED singletonKept

NextSingleton ==
    \E t \in Threads :
        \/ NewCheck(t)
        \/ NewAllocate(t)
        \/ LoadModelsEnter(t)
        \/ LoadEmbedder(t)
        \/ LoadReranker(t)
        \/ NewReturn(t)

SpecSingleton == InitSingleton /\ [][NextSingleton]_vars

(***************************************************************************)
(* Claims on the model singleton.                                          *)
(***************************************************************************)
\* C18: when several threads construct _ModelSingleton at the same time in a
\* fresh process, the embedding model is loaded exactly once and all threads
\* obtain the same instance
C18_LoadedOnce ==
    /\ loads <= 1
    /\ (\A t \in Threads : thread_pc[t] = "done") =>
          /\ loads = 1
          /\ \A t, u \in Threads : thread_obj[t].returned = thread_obj[u].returned

\* C29: no caller obtains a _ModelSingleton whose embedder is not yet loaded:
\* in every interleaving of first-time constructions each service that
\* finishes __init__ holds a non-null embedder.
C29_EmbedderLoaded ==
    \A t \in Threads : thread_pc[t] = "done" => thread_obj[t].embedder

(***************************************************************************)
(* The embedding cache of OptimizedMongoDBRAGService.generate_embedding.   *)
(* A text is given by its cache key hash(text[:500]); keys are numbered in *)
(* the order of their first use.                                           *)
(***************************************************************************)
cacheKept == <<chatVars, retrVars, singletonVars, refVars, classVars>>

InitCache ==
    /\ embedding_cache = <<>>
    /\ cache_calls = 0
    /\ cache_last = NoCall
    /\ ChatIdle
    /\ RetrIdle
    /\ SingletonIdle
    /\ RefIdle
    /\ ClassIdle

\* the largest key used so far (the newest entry is never evicted)
MaxKey(cache) ==
    IF cache = <<>> THEN 0
    ELSE CHOOSE x \in {cache[i] : i \in 1..Len(cache)} :
            \A i \in 1..Len(cache) : cache[i] <= x

\* the texts a call is made with: a text not seen before, the oldest and the
\* newest cached text, and the text evicted by the previous call
CallKeys ==
    {MaxKey(embedding_cache) + 1}
        \cup (IF embedding_cache = <<>> THEN {}
              ELSE {Head(embedding_cache), embedding_cache[Len(embedding_cache)]})
        \cup (IF cache_last.evicted = 0 THEN {} ELSE {cache_last.evicted})

InCache(key) == \E i \in 1..Len(embedding_cache) : embedding_cache[i] = key

\* a text is its first 500 characters (numbered, the number standing for
\* their hash) and what follows them; of the texts that share their first 500
\* characters, rest 0 is the one encoded on a miss and rest 1 another one
TextRests == {0, 1}

\* `cache_key = hash(text[:500])`
CacheKeyOf(prefix, rest) == prefix

\* embedder.encode(text).astype('float32'): told apart by the text encoded
Encode(prefix, rest) == <<prefix, rest>>

\* `self._embedding_cache[cache_key]`: the embedding stored on the miss
CachedEmbedding(key) == Encode(key, 0)

\* generate_embedding(text) returning the cached embedding
GenerateEmbeddingHit ==
    /\ cache_calls < MaxCacheCalls
    /\ \E key \in CallKeys :
          /\ InCache(key)
          /\ \E rest \in TextRests :
                cache_last' = [key |-> CacheKeyOf(key, rest), hit |-> TRUE, evicted |-> 0,
                               size_before |-> Len(embedding_cache), rest |-> rest,
                               returned |-> CachedEmbedding(CacheKeyOf(key, rest))]
    /\ cache_calls' = cache_calls + 1
    /\ UNCHANGED embedding_cache
    /\ UNCHANGED cacheKept

\* generate_embedding(text) encoding the text and caching the result
GenerateEmbeddingMiss ==
    /\ cache_calls < MaxCacheCalls
    /\ \E key \in CallKeys :
          /\ ~InCache(key)
          /\ LET evict == Len(embedding_cache) > CacheLimit
                 kept == IF evict THEN Tail(embedding_cache) ELSE embedding_cache
             IN /\ embedding_cache' = Append(kept, key)
                /\ cache_last' = [key |-> key, hit |-> FALSE,
                                  evicted |-> IF evict THEN Head(embedding_cache) ELSE 0,
                                  size_before |-> Len(embedding_cache), rest |-> 0,
                                  returned |-> Encode(key, 0)]
    /\ cache_calls' = cache_calls + 1
    /\ UNCHANGED cacheKept

\* generate_embedding(text) where embedder.encode raises: logged and re-raised
GenerateEmbeddingRaises ==
    /\ cache_calls < MaxCacheCalls
    /\ \E key \in CallKeys :
          /\ ~InCache(key)
          /\ cache_last' = [key |-> key, hit |-> FALSE, evicted |-> 0,
                            size_before |-> Len(embedding_cache), rest |-> 0,
                            returned |-> <<>>]
    /\ cache_calls' = cache_calls + 1
    /\ UNCHANGED embedding_cache
    /\ UNCHANGED cacheKept

NextCache ==
    \/ GenerateEmbeddingHit
    \/ GenerateEmbeddingMiss
    \/ GenerateEmbeddingRaises

SpecCache == InitCache /\ [][NextCache]_vars

(***************************************************************************)
(* Claims on the embedding cache.                                          *)
(***************************************************************************)
\* C19: after any sequence of generate_embedding calls the cache holds at most
\* 100 entries, and an insertion that would exceed the capacity evicts the
\* oldest entry
C19_CacheBounded ==
    /\ Len(embedding_cache) <= 100
    /\ (~cache_last.hit /\ cache_last.size_before = 100 /\ InCache(cache_last.key))
          => cache_last.evicted # 0

\* C28: the cached generate_embedding is equivalent to the uncached encoder:
\* every call that returns hands back the embedding of the very text it was
\* called with, never one computed from another text with the same first 500
\* characters.
C28_CacheEquivalentToEncoder ==
    cache_last.returned # <<>> =>
        cache_last.returned = Encode(cache_last.key, cache_last.rest)

(***************************************************************************)
(* referenced_movies of one conversation over several chat requests        *)
(* (chat_message and chat_message_stream).  Each request works on the      *)
(* ChatConversation object it loaded at its start and writes it back with  *)
(* conversation.save().                                                    *)
(***************************************************************************)
Requests == 1..MaxRequests

\* sizes of the referenced_movies list a response proposes:
\* list(set(titles of results[:8])), or nothing for an error result
ProposalSizes == {0, 1, GlobalSources}

\* the titles proposed by request r
Proposal(r, n) == [i \in 1..n |-> r * 10 + i]

NoRequest ==
    [pc |-> "new", type |-> "", referenced_movies |-> <<>>,
     system_prompt_sent |-> FALSE, outcome |-> "", is_first_message |-> FALSE,
     saved |-> FALSE]

refKept == <<chatVars, retrVars, singletonVars, cacheVars, classVars>>

\* the conversation exists, nothing referenced yet and the flag still false
InitReferenced ==
    /\ conversation_row = <<>>
    /\ proposals = <<>>
    /\ requests = [r \in Requests |-> NoRequest]
    /\ row_prompt_sent = FALSE
    /\ prompts = <<>>
    /\ ChatIdle
    /\ RetrIdle
    /\ SingletonIdle
    /\ CacheIdle
    /\ ClassIdle

\* `conversation = ChatConversation.objects.get(id=conversation_id)` of
\* chat_message or chat_message_stream
ViewLoad(r) ==
    /\ requests[r].pc = "new"
    /\ \E type \in {"chat_message", "chat_message_stream"} :
          requests' = [requests EXCEPT ![r] =
                          [NoRequest EXCEPT !.pc = "loaded", !.type = type,
                                            !.referenced_movies = conversation_row,
                                            !.system_prompt_sent = row_prompt_sent]]
    /\ UNCHANGED <<conversation_row, proposals, row_prompt_sent, prompts>>
    /\ UNCHANGED refKept

\* GlobalChatService.chat / chat_stream up to the returned dict or the done
\* event: `system_prompt_sent = conv.system_prompt_sent` read from the
\* database, the system prompt put first `if not system_prompt_sent`, the
\* completion call (answered, or failed and replaced by the fallback text), or
\* the outer `except Exception` before any prompt is sent
ServiceCall(r) ==
    /\ requests[r].pc = "loaded"
    /\ \E outcome \in {"answered", "fallback", "error"} :
          IF outcome = "error"
          THEN /\ requests' = [requests EXCEPT ![r].pc = "returned",
                                                ![r].outcome = outcome]
               /\ UNCHANGED prompts
          ELSE /\ requests' = [requests EXCEPT ![r].pc = "returned",
                                                ![r].outcome = outcome,
                                                ![r].is_first_message = ~row_prompt_sent]
               /\ prompts' = Append(prompts,
                                    [request |-> r,
                                     system_prompt |-> ~row_prompt_sent,
                                     flag_at_load |-> requests[r].system_prompt_sent,
                                     answered |-> outcome = "answered"])
    /\ UNCHANGED <<conversation_row, proposals, row_prompt_sent>>
    /\ UNCHANGED refKept

\* `if result['referenced_movies']: conversation.referenced_movies =
\* (current_movies + new_movies)[-10:]`
UpdateReferenced(current_movies, new_movies) ==
    IF new_movies # <<>>
    THEN LastN(current_movies \o new_movies, ReferencedCap)
    ELSE current_movies

\* sizes of the list a result carries: none in the error result
SizesFor(outcome) == IF outcome = "error" THEN {0} ELSE ProposalSizes

\* chat_message from the result of chat() to conversation.save(), which
\* writes every column of the view's object
ChatMessageSave(r) ==
    /\ requests[r].pc = "returned"
    /\ requests[r].type = "chat_message"
    /\ \E n \in SizesFor(requests[r].outcome) :
          LET new_movies == Proposal(r, n)
              updated == UpdateReferenced(requests[r].referenced_movies, new_movies)
              sent == requests[r].is_first_message \/ requests[r].system_prompt_sent
          IN /\ conversation_row' = updated
             /\ row_prompt_sent' = sent
             /\ proposals' = proposals \o new_movies
             /\ requests' = [requests EXCEPT ![r].pc = "done",
                                              ![r].referenced_movies = updated,
                                              ![r].system_prompt_sent = sent,
                                              ![r].saved = TRUE]
    /\ UNCHANGED prompts
    /\ UNCHANGED refKept

\* the texts event_stream has accumulated when the done event arrives: the
\* fallback text is never empty, an answered stream may have carried no content
MessagesFor(outcome) ==
    IF outcome = "fallback" THEN {TemplateText}
    ELSE {"", "Inception explores dreams."}

\* event_stream after the loop, the service having yielded its done event:
\* `if full_message:` update and conversation.save()
StreamSave(r) ==
    /\ requests[r].pc = "returned"
    /\ requests[r].type = "chat_message_stream"
    /\ requests[r].outcome # "error"
    /\ \E n \in ProposalSizes, full_message \in MessagesFor(requests[r].outcome) :
          LET new_movies == Proposal(r, n)
              updated == UpdateReferenced(requests[r].referenced_movies, new_movies)
              sent == requests[r].is_first_message \/ requests[r].system_prompt_sent
          IN /\ proposals' = proposals \o new_movies
             /\ IF full_message # ""
                THEN /\ conversation_row' = updated
                     /\ row_prompt_sent' = sent
                     /\ requests' = [requests EXCEPT ![r].pc = "done",
                                                      ![r].referenced_movies = updated,
                                                      ![r].system_prompt_sent = sent,
                                                      ![r].saved = TRUE]
                ELSE /\ requests' = [requests EXCEPT ![r].pc = "done"]
                     /\ UNCHANGED <<conversation_row, row_prompt_sent>>
    /\ UNCHANGED prompts
    /\ UNCHANGED refKept

\* event_stream after the loop, the service having yielded an error event
StreamError(r) ==
    /\ requests[r].pc = "returned"
    /\ requests[r].type = "chat_message_stream"
    /\ requests[r].outcome = "error"
    /\ requests' = [requests EXCEPT ![r].pc = "done"]
    /\ UNCHANGED <<conversation_row, proposals, row_prompt_sent, prompts>>
    /\ UNCHANGED refKept

NextReferenced ==
    \E r \in Requests :
        \/ ViewLoad(r)
        \/ ServiceCall(r)
        \/ ChatMessageSave(r)
        \/ StreamSave(r)
        \/ StreamError(r)

SpecReferenced == InitReferenced /\ [][NextReferenced]_vars

(***************************************************************************)
(* Claims on the referenced_movies list.                                   *)
(***************************************************************************)
\* no request is between its load and its save
NoRequestInFlight == \A r \in Requests : requests[r].pc \in {"new", "done"}

\* C20: after any sequence of completed chat requests the referenced_movies
\* list has at most 10 entries and equals the last 10 entries of the
\* concatenation, in response order, of the lists the responses proposed
C20_LastTenOfProposals ==
    /\ Len(conversation_row) <= 10
    /\ NoRequestInFlight => conversation_row = LastN(proposals, 10)

\* the prompts of the requests whose completion call succeeded
AnsweredPrompts == SelectSeq(prompts, LAMBDA p : p.answered)

\* C25: the prompt carries the system instruction block if and only if the
\* conversation's system_prompt_sent was false when the request started, and
\* of the successfully answered requests of a conversation only the first
\* carries the block.
C25_SystemPromptOnlyFirst ==
    /\ \A i \in 1..Len(prompts) : prompts[i].system_prompt <=> ~prompts[i].flag_at_load
    /\ \A i \in 1..Len(AnsweredPrompts) : AnsweredPrompts[i].system_prompt <=> i = 1

\* the titles of the responses whose view saved the conversation, in
\* response order
SavedProposals == SelectSeq(proposals, LAMBDA t : requests[t \div 10].saved)

\* C30: when requests on one conversation are processed concurrently the
\* updates of all are retained: once they completed, referenced_movies holds
\* the titles every saving response proposed (up to the cap of 10) and
\* system_prompt_sent is true if any of them set it.
C30_ConcurrentUpdatesRetained ==
    NoRequestInFlight =>
        /\ \A i \in 1..Len(LastN(SavedProposals, ReferencedCap)) :
              \E j \in 1..Len(conversation_row) :
                  conversation_row[j] = LastN(SavedProposals, ReferencedCap)[i]
        /\ (\E r \in Requests : requests[r].saved /\ requests[r].is_first_message)
              => row_prompt_sent

(***************************************************************************)
(* The query classifier of the global chat as a pure function.             *)
(***************************************************************************)
\* the keywords the model draws queries from
QueryKeywords ==
    {"them", "theme", "what about", "about", "similar to", "similar",
     "recommend", "compare"}

\* <<a, b>>: keyword a is a substring of keyword b, so it occurs wherever b does
SubstringPairs ==
    {<<"them", "theme">>, <<"about", "what about">>, <<"similar", "similar to">>}

\* the keyword sets a text can have
QueryWordSets ==
    {w \in SUBSET QueryKeywords : \A p \in SubstringPairs : p[2] \in w => p[1] \in w}

\* conversation_history: None / empty, or the joined ROLE: content lines
Histories == {"", "USER: Tell me about Inception"}

InitClassify ==
    /\ cpc = "input"
    /\ cwords \in QueryWordSets
    /\ chistory \in Histories
    /\ cresult = ""
    /\ ChatIdle
    /\ RetrIdle
    /\ SingletonIdle
    /\ CacheIdle
    /\ RefIdle

\* one call of GlobalChatService._classify_query_type
ClassifyQueryType ==
    /\ cpc = "input"
    /\ cresult' = _classify_query_type(cwords, chistory)
    /\ cpc' = "classified"
    /\ UNCHANGED <<cwords, chistory>>
    /\ UNCHANGED <<chatVars, retrVars, singletonVars, cacheVars, refVars>>

NextClassify == ClassifyQueryType

SpecClassify == InitClassify /\ [][NextClassify]_vars

(***************************************************************************)
(* Claims on the query classifier.                                         *)
(***************************************************************************)
\* the rules in their priority order
RulePriority == <<"follow_up", "recommendation", "comparison", "genre_theme">>

\* the rule of a label matches the query: one of its keywords occurs in it (the
\* follow-up rule also needs a conversation history)
RuleMatches(label, words, history) ==
    CASE label = "follow_up" -> history # "" /\ words \cap follow_up_indicators # {}
      [] label = "recommendation" -> words \cap recommendation_keywords # {}
      [] label = "comparison" -> words \cap comparison_keywords # {}
      [] label = "genre_theme" -> words \cap genre_theme_keywords # {}
      [] OTHER -> FALSE

\* C17: the classifier returns the label of the first rule, in the order
\* follow_up > recommendation > comparison > genre_theme, that matches the
\* query, and general when no rule matches
C17_FirstMatchingRuleWins ==
    cpc = "classified" =>
        LET matching == {i \in 1..Len(RulePriority) : RuleMatches(RulePriority[i], cwords, chistory)}
        IN IF matching = {} THEN cresult = "general"
           ELSE \E i \in matching :
                    /\ \A j \in matching : i <= j
                    /\ cresult = RulePriority[i]

C17_Witness ==
    /\ cpc = "classified"
    /\ chistory = ""
    /\ cwords = {"them", "theme", "similar", "similar to", "compare"}
    /\ cresult = "recommendation"

(***************************************************************************)
(* The conversation digest: ConversationMemoryManager.get_context_text of   *)
(* the MongoDB service and ConversationMemoryManager.                      *)
(* get_conversation_context of the pgvector service.  A text is a sequence  *)
(* of character codes; the content of the i-th message is made of codes    *)
(* 1000 * i + position, so that every character of a digest tells where it  *)
(* comes from.                                                             *)
(***************************************************************************)
Roles == {"user", "assistant"}

RoleChars(role) ==
    IF role = "user" THEN <<117, 115, 101, 114>>
    ELSE <<97, 115, 115, 105, 115, 116, 97, 110, 116>>

UpperChar(c) == IF c \in 97..122 THEN c - 32 ELSE c

\* str.upper
Upper(s) == [i \in 1..Len(s) |-> UpperChar(s[i])]

\* str.capitalize
Capitalize(s) == [i \in 1..Len(s) |-> IF i = 1 THEN UpperChar(s[i]) ELSE s[i]]

\* ": " and "\n"
ColonSpace == <<58, 32>>
Newline == <<10>>

\* content lengths of a message: short, or one more than the per-message cut
ContentLengths == {1, ContentCut + 1}

ContentOf(i, n) == [p \in 1..n |-> 1000 * i + p]

MkHistory(rs, ns) ==
    [i \in 1..Len(rs) |-> [role |-> rs[i], content |-> ContentOf(i, ns[i])]]

RECURSIVE Join(_)
\* "\n".join(context_parts)
Join(parts) ==
    IF parts = <<>> THEN <<>>
    ELSE IF Len(parts) = 1 THEN parts[1]
    ELSE parts[1] \o Newline \o Join(Tail(parts))

\* ConversationMemoryManager.get_context_text (optimized_mongodb_rag_service)
get_context_text(conversation_history, last_n) ==
    IF conversation_history = <<>> THEN <<>>
    ELSE LET recent_messages == LastN(conversation_history, last_n)
             context_parts == [i \in 1..Len(recent_messages) |->
                 Capitalize(RoleChars(recent_messages[i].role)) \o ColonSpace
                     \o recent_messages[i].content]
             context == Join(context_parts)
         IN IF Len(context) > MaxContextLength
            THEN LastN(context, MaxContextLength)
            ELSE context

\* ConversationMemoryManager.get_conversation_context (optimized_rag_service):
\* the last n_messages rows by created_at, oldest first, content cut to 200
ConversationContextText(messages, n_messages) ==
    LET recent == LastN(messages, n_messages)
    IN Join([i \in 1..Len(recent) |->
                Upper(RoleChars(recent[i].role)) \o ColonSpace
                    \o Take(recent[i].content, ContentCut)])

memKept == <<mhistory, oldVars, vsVars, ownVars, ctVars>>

InitDigest ==
    /\ mpc = "input"
    /\ \E n \in 0..MaxHistory :
          \E rs \in [1..n -> Roles], ns \in [1..n -> ContentLengths] :
              mhistory = MkHistory(rs, ns)
    /\ digest = <<>>
    /\ OldIdle
    /\ VsIdle
    /\ OwnIdle
    /\ CtIdle

\* context_manager.get_context_text(conversation_history, last_n=5)
GetContextText ==
    /\ mpc = "input"
    /\ digest' = get_context_text(mhistory, LastNMessages)
    /\ mpc' = "get_context_text"
    /\ UNCHANGED memKept

\* self.memory.get_conversation_context(conversation_id, n_messages=5)
GetConversationContext ==
    /\ mpc = "input"
    /\ digest' = ConversationContextText(mhistory, LastNMessages)
    /\ mpc' = "get_conversation_context"
    /\ UNCHANGED memKept

NextDigest == GetContextText \/ GetConversationContext

SpecDigest == InitDigest /\ [][NextDigest]_vars

(***************************************************************************)
(* Claims on the conversation digest.                                      *)
(***************************************************************************)
\* the turn and the position a content character of the digest comes from
TurnOf(c) == c \div 1000
ContentChars(text) == SelectSeq(text, LAMBDA c : c >= 1000)

\* the content characters are those of the last N turns, oldest first
Chronological(text) ==
    LET cs == ContentChars(text)
    IN /\ \A i \in 1..Len(cs) : TurnOf(cs[i]) > Len(mhistory) - LastNMessages
       /\ \A i \in 1..(Len(cs) - 1) : cs[i] < cs[i + 1]

\* the 'ROLE: content' lines of the last N turns, joined: the role as the
\* function writes it, the content as the function cuts it
JoinedLines ==
    LET recent == LastN(mhistory, LastNMessages)
    IN Join([i \in 1..Len(recent) |->
                (IF mpc = "get_context_text"
                 THEN Capitalize(RoleChars(recent[i].role))
                 ELSE Upper(RoleChars(recent[i].role)))
                \o ColonSpace
                \o (IF mpc = "get_context_text"
                    THEN recent[i].content
                    ELSE Take(recent[i].content, ContentCut))])

\* C22: the digest is made of the last N turns in chronological order, one
\* 'ROLE: content' line per turn, and never exceeds the character budget: when
\* the joined lines exceed it the digest is their trailing budget-many
\* characters.
C22_DigestWithinBudget ==
    mpc \in {"get_context_text", "get_conversation_context"} =>
        /\ Len(digest) <= MaxContextLength
        /\ Chronological(digest)
        /\ digest = LastN(JoinedLines, MaxContextLength)

(***************************************************************************)
(* Writes to the movie_embeddings collection: MovieSectionMongoDB.create    *)
(* and update_embedding, MongoDBService.store_embedding and the            *)
(* migrate_to_mongodb command.  The store applies each insert_one,         *)
(* update_one and find_one atomically.                                     *)
(***************************************************************************)
\* the (movie_id, section_type) keys written to
WriteKeys == {<<1, "themes">>, <<1, "legacy">>}

\* the PostgreSQL ids a section of the key has had: the section's id, and its
\* id after the section was deleted and generated again
SectionIdsOf(key) == IF key[2] = "themes" THEN {1, 3} ELSE {2, 4}

\* idx_movie_section_unique of MovieSectionMongoDB.create_indexes and the
\* unique section_id index of MongoDBService._setup_indexes; which of them
\* exist depends on which command ran first on the deployment
IndexNames == {"idx_movie_section_unique", "section_id_1"}

DocsWithKey(coll, key) ==
    SelectSeq(coll, LAMBDA d : d.movie_id = key[1] /\ d.section_type = key[2])

\* section_id 0 stands for a document without the field: a unique index
\* counts the missing field as one value
ViolatesUnique(coll, idx, d) ==
    \/ /\ "idx_movie_section_unique" \in idx
       /\ DocsWithKey(coll, <<d.movie_id, d.section_type>>) # <<>>
    \/ /\ "section_id_1" \in idx
       /\ \E i \in 1..Len(coll) : coll[i].section_id = d.section_id

\* collection.insert_one(document): the collection, or "DuplicateKeyError"
insert_one(coll, idx, d) ==
    IF ViolatesUnique(coll, idx, d) THEN "DuplicateKeyError" ELSE Append(coll, d)

\* index of the first document the filter matches, 0 when none
FirstMatch(coll, Matches(_)) ==
    IF \E i \in 1..Len(coll) : Matches(coll[i])
    THEN CHOOSE i \in 1..Len(coll) :
            Matches(coll[i]) /\ \A j \in 1..(i - 1) : ~Matches(coll[j])
    ELSE 0

\* MovieSectionMongoDB.create
create(coll, idx, key, embedding) ==
    insert_one(coll, idx, [movie_id |-> key[1], section_type |-> key[2],
                           section_id |-> 0, embedding |-> embedding])

\* MovieSectionMongoDB.update_embedding: update_one without upsert
update_embedding(coll, key, embedding) ==
    LET i == FirstMatch(coll, LAMBDA d : d.movie_id = key[1] /\ d.section_type = key[2])
    IN IF i = 0 THEN coll ELSE [coll EXCEPT ![i].embedding = embedding]

\* MongoDBService.store_embedding: update_one({'section_id': section_id},
\* {'$set': document}, upsert=True); the collection, or "DuplicateKeyError"
store_embedding(coll, idx, section_id, key, embedding) ==
    LET i == FirstMatch(coll, LAMBDA d : d.section_id = section_id)
        document == [movie_id |-> key[1], section_type |-> key[2],
                     section_id |-> section_id, embedding |-> embedding]
    IN IF i = 0
       THEN insert_one(coll, idx, document)
       ELSE [coll EXCEPT ![i] = document]

\* the sections with embeddings a migration run walks through
MigrationSections == <<<<1, "themes">>, <<1, "legacy">>>>

Migrations == 1..NumMigrations

vsKept == <<oldVars, memVars, ownVars, ctVars>>

InitVectorStore ==
    /\ collection = <<>>
    /\ unique_indexes \in SUBSET IndexNames
    /\ mig_pc = [p \in Migrations |-> [section |-> 1, step |-> "check"]]
    /\ vs_ops = 0
    /\ vs_last = NoWrite
    /\ OldIdle
    /\ MemIdle
    /\ OwnIdle
    /\ CtIdle

Written(op, key, embedding, outcome) ==
    [op |-> op, movie_id |-> key[1], section_type |-> key[2],
     embedding |-> embedding, outcome |-> outcome]

\* one call of MovieSectionMongoDB.create
Create ==
    /\ vs_ops < MaxStoreOps
    /\ \E key \in WriteKeys :
          LET embedding == vs_ops + 1
              res == create(collection, unique_indexes, key, embedding)
          IN IF res = "DuplicateKeyError"
             THEN /\ vs_last' = Written("create", key, embedding, "raised")
                  /\ UNCHANGED collection
             ELSE /\ vs_last' = Written("create", key, embedding, "returned")
                  /\ collection' = res
    /\ vs_ops' = vs_ops + 1
    /\ UNCHANGED <<unique_indexes, mig_pc>>
    /\ UNCHANGED vsKept

\* one call of MovieSectionMongoDB.update_embedding
UpdateEmbedding ==
    /\ vs_ops < MaxStoreOps
    /\ \E key \in WriteKeys :
          LET embedding == vs_ops + 1
          IN /\ collection' = update_embedding(collection, key, embedding)
             /\ vs_last' = Written("update_embedding", key, embedding, "returned")
    /\ vs_ops' = vs_ops + 1
    /\ UNCHANGED <<unique_indexes, mig_pc>>
    /\ UNCHANGED vsKept

\* one call of MongoDBService.store_embedding; its `except Exception` returns
\* False
StoreEmbedding ==
    /\ vs_ops < MaxStoreOps
    /\ \E key \in WriteKeys :
          \E section_id \in SectionIdsOf(key) :
              LET embedding == vs_ops + 1
                  res == store_embedding(collection, unique_indexes, section_id,
                                         key, embedding)
              IN IF res = "DuplicateKeyError"
                 THEN /\ vs_last' = Written("store_embedding", key, embedding, "False")
                      /\ UNCHANGED collection
                 ELSE /\ vs_last' = Written("store_embedding", key, embedding, "True")
                      /\ collection' = res
    /\ vs_ops' = vs_ops + 1
    /\ UNCHANGED <<unique_indexes, mig_pc>>
    /\ UNCHANGED vsKept

\* migrate_to_mongodb: `existing = get_by_movie_and_type(...)`, and the
\* `continue` when the document exists
MigrateCheck(p) ==
    /\ mig_pc[p].section <= Len(MigrationSections)
    /\ mig_pc[p].step = "check"
    /\ IF DocsWithKey(collection, MigrationSections[mig_pc[p].section]) # <<>>
       THEN mig_pc' = [mig_pc EXCEPT ![p].section = @ + 1]
       ELSE mig_pc' = [mig_pc EXCEPT ![p].step = "create"]
    /\ UNCHANGED <<collection, unique_indexes, vs_ops, vs_last>>
    /\ UNCHANGED vsKept

\* migrate_to_mongodb: MovieSectionMongoDB.create for the section; an
\* exception is counted and the run goes on
MigrateCreate(p) ==
    /\ mig_pc[p].section <= Len(MigrationSections)
    /\ mig_pc[p].step = "create"
    /\ LET key == MigrationSections[mig_pc[p].section]
           res == create(collection, unique_indexes, key, 10 * p)
       IN IF res = "DuplicateKeyError"
          THEN /\ vs_last' = Written("migrate_to_mongodb", key, 10 * p, "error")
               /\ UNCHANGED collection
          ELSE /\ vs_last' = Written("migrate_to_mongodb", key, 10 * p, "migrated")
               /\ collection' = res
    /\ mig_pc' = [mig_pc EXCEPT ![p] = [section |-> @.section + 1, step |-> "check"]]
    /\ UNCHANGED <<unique_indexes, vs_ops>>
    /\ UNCHANGED vsKept

NextVectorStore ==
    \/ Create
    \/ UpdateEmbedding
    \/ StoreEmbedding
    \/ \E p \in Migrations : MigrateCheck(p)
    \/ \E p \in Migrations : MigrateCreate(p)

SpecVectorStore == InitVectorStore /\ [][NextVectorStore]_vars

(***************************************************************************)
(* Claims on the writes to the vector store.                               *)
(***************************************************************************)
\* C23: after any sequence of create, update_embedding, store_embedding and
\* migration operations the store holds at most one vector per (movie_id,
\* section_type) key, and a write for a key replaces the existing vector or
\* creates it when absent.
C23_OneVectorPerKey ==
    /\ \A key \in WriteKeys : Len(DocsWithKey(collection, key)) <= 1
    /\ vs_last # NoWrite =>
          LET ds == DocsWithKey(collection, <<vs_last.movie_id, vs_last.section_type>>)
          IN /\ Len(ds) = 1
             /\ ds[1].embedding = vs_last.embedding

(***************************************************************************)
(* The conversation endpoints: ChatViewSet.conversations,                  *)
(* conversation_detail and delete_conversation of the API, and             *)
(* get_conversations, get_conversation_detail and delete_conversation of   *)
(* chat/views.py.                                                          *)
(***************************************************************************)
Users == 1..NumUsers

ConversationIds == 1..NumConversations

Existing == {c \in ConversationIds : conversations[c].exists}

ownKept == <<oldVars, memVars, vsVars, ctVars>>

InitOwnership ==
    /\ \E owner \in [ConversationIds -> Users] :
          conversations = [c \in ConversationIds |->
                              [user |-> owner[c], exists |-> TRUE, unread |-> TRUE]]
    /\ own_last = NoRequestYet
    /\ OldIdle
    /\ MemIdle
    /\ VsIdle
    /\ CtIdle

Answered(endpoint, user, c, status, shown) ==
    [endpoint |-> endpoint, user |-> user, conversation_id |-> c,
     status |-> status, shown |-> shown]

\* ChatViewSet.conversations: ChatConversation.objects.filter(user=request.user)
ApiConversations(u) ==
    /\ own_last' = Answered("ChatViewSet.conversations", u, 0, 200,
                            {c \in Existing : conversations[c].user = u})
    /\ UNCHANGED conversations
    /\ UNCHANGED ownKept

\* ChatViewSet.conversation_detail: get(id=pk, user=request.user), mark the
\* assistant messages read, serialize
ApiConversationDetail(u, c) ==
    /\ IF c \in Existing /\ conversations[c].user = u
       THEN /\ conversations' = [conversations EXCEPT ![c].unread = FALSE]
            /\ own_last' = Answered("ChatViewSet.conversation_detail", u, c, 200, {c})
       ELSE /\ own_last' = Answered("ChatViewSet.conversation_detail", u, c, 404, {})
            /\ UNCHANGED conversations
    /\ UNCHANGED ownKept

\* ChatViewSet.delete_conversation: get(id=pk, user=request.user), delete
ApiDeleteConversation(u, c) ==
    /\ IF c \in Existing /\ conversations[c].user = u
       THEN /\ conversations' = [conversations EXCEPT ![c].exists = FALSE]
            /\ own_last' = Answered("ChatViewSet.delete_conversation", u, c, 204, {})
       ELSE /\ own_last' = Answered("ChatViewSet.delete_conversation", u, c, 404, {})
            /\ UNCHANGED conversations
    /\ UNCHANGED ownKept

\* chat.views.get_conversations: ChatConversation.objects.all()
GetConversations(u) ==
    /\ own_last' = Answered("get_conversations", u, 0, 200, Existing)
    /\ UNCHANGED conversations
    /\ UNCHANGED ownKept

\* chat.views.get_conversation_detail: ChatConversation.objects.get(id=...)
GetConversationDetail(u, c) ==
    /\ IF c \in Existing
       THEN own_last' = Answered("get_conversation_detail", u, c, 200, {c})
       ELSE own_last' = Answered("get_conversation_detail", u, c, 404, {})
    /\ UNCHANGED conversations
    /\ UNCHANGED ownKept

\* chat.views.delete_conversation: ChatConversation.objects.get(id=...),
\* conversation.delete()
DeleteConversation(u, c) ==
    /\ IF c \in Existing
       THEN /\ conversations' = [conversations EXCEPT ![c].exists = FALSE]
            /\ own_last' = Answered("delete_conversation", u, c, 200, {})
       ELSE /\ own_last' = Answered("delete_conversation", u, c, 404, {})
            /\ UNCHANGED conversations
    /\ UNCHANGED ownKept

NextOwnership ==
    \E u \in Users :
        \/ ApiConversations(u)
        \/ GetConversations(u)
        \/ \E c \in ConversationIds :
              \/ ApiConversationDetail(u, c)
              \/ ApiDeleteConversation(u, c)
              \/ GetConversationDetail(u, c)
              \/ DeleteConversation(u, c)

SpecOwnership == InitOwnership /\ [][NextOwnership]_vars

(***************************************************************************)
(* Claims on the conversation endpoints.                                   *)
(***************************************************************************)
\* C24: through every conversation endpoint a user reads or deletes only
\* conversations they own: a detail or delete request for another user's
\* conversation is answered 'not found', shows nothing of it and leaves the
\* conversation and its messages in existence.
C24_OwnConversationsOnly ==
    [][/\ \A c \in own_last'.shown : conversations[c].user = own_last'.user
       /\ \A c \in ConversationIds :
             (conversations[c].exists /\ conversations[c].user # own_last'.user) =>
                /\ conversations'[c] = conversations[c]
                /\ own_last'.conversation_id = c => own_last'.status = 404]_vars

(***************************************************************************)
(* generate_embedding of OptimizedMongoDBRAGService called by several      *)
(* threads on one service object.  The method takes no lock; a thread can   *)
(* be preempted between any two of its dict operations.                    *)
(***************************************************************************)
CacheThreads == 1..NumThreads

Holds(cache, key) == \E i \in 1..Len(cache) : cache[i] = key

Without(cache, key) == SelectSeq(cache, LAMBDA x : x # key)

NoCacheThread == [pc |-> "idle", key |-> 0, oldest |-> 0, calls |-> 0, outcome |-> ""]

ctKept == <<oldVars, memVars, vsVars, ownVars>>

\* the cache one entry below its limit or at its limit
InitCacheThreads ==
    /\ \E n \in {CacheLimit - 1, CacheLimit} : shared_cache = [i \in 1..n |-> i]
    /\ cache_threads = [t \in CacheThreads |-> NoCacheThread]
    /\ OldIdle
    /\ MemIdle
    /\ VsIdle
    /\ OwnIdle

\* the texts a call is made with: the oldest cached text and two texts not
\* cached when the call starts
ThreadCallKeys ==
    {Head(shared_cache), MaxKey(shared_cache) + 1, MaxKey(shared_cache) + 2}

\* `cache_key = hash(text[:500])`, `if cache_key in self._embedding_cache:`
CacheCheck(t) ==
    /\ cache_threads[t].pc \in {"idle", "returned"}
    /\ cache_threads[t].calls < MaxThreadCalls
    /\ \E key \in ThreadCallKeys :
          cache_threads' = [cache_threads EXCEPT ![t] =
              [pc |-> IF Holds(shared_cache, key) THEN "read" ELSE "encode",
               key |-> key, oldest |-> 0, calls |-> @.calls + 1, outcome |-> ""]]
    /\ UNCHANGED shared_cache
    /\ UNCHANGED ctKept

\* `return self._embedding_cache[cache_key]`: KeyError when the entry has
\* been evicted since the test; the `except Exception` logs and re-raises
CacheRead(t) ==
    /\ cache_threads[t].pc = "read"
    /\ cache_threads' = [cache_threads EXCEPT
          ![t].pc = IF Holds(shared_cache, cache_threads[t].key)
                    THEN "returned" ELSE "raised",
          ![t].outcome = IF Holds(shared_cache, cache_threads[t].key)
                         THEN "embedding" ELSE "KeyError"]
    /\ UNCHANGED shared_cache
    /\ UNCHANGED ctKept

\* embedder.encode(...) and `if len(self._embedding_cache) > 100:`
CacheEncode(t) ==
    /\ cache_threads[t].pc = "encode"
    /\ cache_threads' = [cache_threads EXCEPT
          ![t].pc = IF Len(shared_cache) > CacheLimit THEN "iter" ELSE "store"]
    /\ UNCHANGED shared_cache
    /\ UNCHANGED ctKept

\* `next(iter(self._embedding_cache))`
CacheOldest(t) ==
    /\ cache_threads[t].pc = "iter"
    /\ cache_threads' = [cache_threads EXCEPT ![t].pc = "pop",
                                               ![t].oldest = Head(shared_cache)]
    /\ UNCHANGED shared_cache
    /\ UNCHANGED ctKept

\* `self._embedding_cache.pop(oldest)`: KeyError when another thread has
\* popped the same key
CachePop(t) ==
    /\ cache_threads[t].pc = "pop"
    /\ IF Holds(shared_cache, cache_threads[t].oldest)
       THEN /\ shared_cache' = Without(shared_cache, cache_threads[t].oldest)
            /\ cache_threads' = [cache_threads EXCEPT ![t].pc = "store"]
       ELSE /\ cache_threads' = [cache_threads EXCEPT ![t].pc = "raised",
                                                       ![t].outcome = "KeyError"]
            /\ UNCHANGED shared_cache
    /\ UNCHANGED ctKept

\* `self._embedding_cache[cache_key] = result` and `return result`; a key
\* another thread has stored meanwhile keeps its place
CacheStore(t) ==
    /\ cache_threads[t].pc = "store"
    /\ shared_cache' = IF Holds(shared_cache, cache_threads[t].key)
                       THEN shared_cache
                       ELSE Append(shared_cache, cache_threads[t].key)
    /\ cache_threads' = [cache_threads EXCEPT ![t].pc = "returned",
                                               ![t].outcome = "embedding"]
    /\ UNCHANGED ctKept

NextCacheThreads ==
    \E t \in CacheThreads :
        \/ CacheCheck(t)
        \/ CacheRead(t)
        \/ CacheEncode(t)
        \/ CacheOldest(t)
        \/ CachePop(t)
        \/ CacheStore(t)

SpecCacheThreads == InitCacheThreads /\ [][NextCacheThreads]_vars

(***************************************************************************)
(* Claims on concurrent generate_embedding calls.                          *)
(***************************************************************************)
\* C27: concurrent generate_embedding calls on one service object never fail
\* or corrupt the cache because of the interleaving: each call returns a
\* vector for its text and the cache remains within its capacity.
C27_ConcurrentCallsSafe ==
    /\ \A t \in CacheThreads : cache_threads[t].pc # "raised"
    /\ \A i, j \in 1..Len(shared_cache) : i # j => shared_cache[i] # shared_cache[j]
    /\ Len(shared_cache) <= CacheLimit

\* every entry point of the model
Init == InitDiversity \/ InitSync \/ InitStream \/ InitRetrieval \/ InitSingleton \/ InitCache \/ InitReferenced \/ InitClassify \/ InitDigest \/ InitVectorStore \/ InitOwnership \/ InitCacheThreads

Next == NextDiversity \/ NextSync \/ NextStream \/ NextRetrieval \/ NextSingleton \/ NextCache \/ NextReferenced \/ NextClassify \/ NextDigest \/ NextVectorStore \/ NextOwnership \/ NextCacheThreads

Spec == Init /\ [][Next]_vars

(***************************************************************************)
(* Claims on the streaming chat request.                                   *)
(***************************************************************************)
TypesOf(es) == [i \in 1..Len(es) |-> es[i].type]

HasType(es, t) == \E i \in 1..Len(es) : es[i].type = t

ContentsOf(es) ==
    LET cs == SelectSeq(es, LAMBDA e : e.type = "content")
    IN [i \in 1..Len(cs) |-> cs[i].content]

NonEmptyChunks == SelectSeq(llm_chunks, LAMBDA c : c # "")

\* C6: if the client disconnects while event_stream is suspended at the
\* yield of a service event, no assistant message is created and the
\* conversation's system_prompt_sent and referenced_movies stay as they were.
C6_DisconnectPersistsNothing ==
    view_pc = "closed_in_loop" => conv = conv0

\* C6 witness: the client left after three content chunks had been forwarded.
C6_Witness ==
    /\ view_pc = "closed_in_loop"
    /\ Len(ContentsOf(delivered)) = 3
    /\ ContentsOf(delivered) = NonEmptyChunks
    /\ conv = conv0

\* C7: the streaming endpoint persists an assistant message and conversation
\* updates only for a request whose service stream reached its done event; a
\* service stream that ended with an error event persists nothing.
C7_PersistOnlyOnDone ==
    /\ conv # conv0 => (HasType(delivered, "done") /\ ~HasType(emitted, "error"))
    /\ (HasType(emitted, "error") /\ view_pc \in {"final_yielded", "ended", "closed_at_end"})
          => conv = conv0

\* C7 witness: the service stream ended with an error event, event_stream ran
\* to its end and the conversation is as it was.
C7_Witness ==
    /\ view_pc = "ended"
    /\ emitted # <<>>
    /\ emitted[Len(emitted)].type = "error"
    /\ HasType(delivered, "error")
    /\ conv = conv0

\* C8: whenever embedding, retrieval or generation fails in the streaming
\* path, the stream delivered to the caller contains an error event and that
\* event is the last one.
C8_TerminalErrorEvent ==
    (view_pc = "ended" /\ fault \in Faults \cup {"llm_raise"}) =>
        /\ HasType(delivered, "error")
        /\ delivered[Len(delivered)].type = "error"

\* position of an event type in the order rag_start, sources, llm_start,
\* content*, done
Rank(t) ==
    CASE t = "rag_start" -> 1
      [] t = "sources" -> 2
      [] t = "llm_start" -> 3
      [] t = "content" -> 4
      [] t = "done" -> 5
      [] OTHER -> 6

\* C9: the service emits its events in the order rag_start, sources,
\* llm_start, content*, done; the content events are exactly the non-empty
\* chunks read from the language-model stream, in order, and each is
\* forwarded before the next chunk is read.
C9_ChunksForwardedInOrder ==
    /\ \A i, j \in 1..Len(emitted) :
          i < j => \/ Rank(emitted[i].type) < Rank(emitted[j].type)
                   \/ emitted[i].type = "content" /\ emitted[j].type = "content"
    /\ (svc_pc \in {"done_yielded", "ended"} /\ ~HasType(emitted, "error")) =>
          /\ SubSeq(TypesOf(emitted), 1, 3) = <<"rag_start", "sources", "llm_start">>
          /\ emitted[Len(emitted)].type = "done"
    /\ ContentsOf(emitted) = NonEmptyChunks
    /\ Len(NonEmptyChunks) - Len(ContentsOf(delivered)) <= 1

====
